---- MODULE Spec2Model ----
(***************************************************************************)
(* Bundle-image composition pipeline of the images-creator Shopify app.    *)
(*                                                                         *)
(*   - the admin-action extension's write-back run                         *)
(*     (generateAndUpdateBundles: composite -> update, per product group)  *)
(*   - the grid layout planner (calculateGridLayout, both cell sizes)      *)
(*   - the fetch-bundle-images POST handler (validation, per-id queries)   *)
(*   - the composite builder (processImages: Cloudinary only, and        *)
(*     switched by IMAGE_API_MODE) with the image-process POST handler     *)
(*   - the update-product-image POST handler                               *)
(*   - the extension's loadImages effect and its run trigger               *)
(*                                                                         *)
(* JavaScript strings built from templates are modelled as sequences of    *)
(* their parts, '' as the empty sequence; an object is a record, and a     *)
(* property that is absent from the object is absent from the record.      *)
(***************************************************************************)
EXTENDS Integers, Sequences, FiniteSets, TLC

\* ------------------------------------------------------------------------
\* Bounds
\* ------------------------------------------------------------------------
MaxGroups == 2
MaxImageCount == 12
MaxCalls == 2
MaxIds == 2
MaxComponents == 3
MaxUrls == 2
MaxTime == 1
MaxSelected == 1

\* ------------------------------------------------------------------------
\* Write-back run: state of the Extension component and of one invocation
\* of generateAndUpdateBundles
\* ------------------------------------------------------------------------
VARIABLES
    products,           \* useState([]) : the groups to process
    processing,         \* useState(false)
    currentStep,        \* useState('')
    processedCount,     \* useState(0)
    processingResults,  \* useState([])
    results,            \* const results = [] of the running invocation
    i,                  \* loop index of the running invocation
    processRes,         \* const processRes of the current iteration
    combinedImageUrl,   \* const combinedImageUrl of the current iteration
    pc,                 \* position of the invocation
    inflight,           \* requests issued by fetch() and not yet settled
    fetchLog,           \* per recorded group: what its fetch() calls returned
    sent                \* the requests fetch() was called with, in order

runVars == <<products, processing, currentStep, processedCount,
             processingResults, results, i, processRes, combinedImageUrl,
             pc, inflight, fetchLog, sent>>

\* Grid layout planner: one call of calculateGridLayout at a time
VARIABLES
    layoutPc,           \* position of the call
    imageCount,         \* the argument
    cols, rows,         \* let cols, rows
    cellWidth, cellHeight,
    canvasWidth, canvasHeight,
    positions,          \* const positions = []
    li,                 \* the i of the positions loop
    layoutLog           \* the calls that returned: argument and result

layoutVars == <<layoutPc, imageCount, cols, rows, cellWidth, cellHeight,
                canvasWidth, canvasHeight, positions, li, layoutLog>>

\* fetch-bundle-images POST handler: one request at a time
VARIABLES
    fetchPc,            \* position of the handler
    reqBody,            \* what request.json() yields for the request
    productIds,         \* const { productIds } = body
    fIdx,               \* position of the for-of over productIds
    queries,            \* the admin.graphql calls made for the request
    lookups,            \* how each of these calls ended, in order
    lastAnswer,         \* what the last of them settled with
    productsWithImages, \* const productsWithImages = []
    productsFound,      \* let productsFound = 0
    componentsFound,    \* let componentsFound = 0
    totalImagesFound,   \* let totalImagesFound = 0
    response            \* the Response the handler returned

fetchVars == <<fetchPc, reqBody, productIds, fIdx, queries, lookups,
               lastAnswer,
               productsWithImages, productsFound, componentsFound,
               totalImagesFound, response>>

\* Composite builder: one processImages call at a time, made directly or by
\* the image-process POST handler
VARIABLES
    service,            \* the module processImages is imported from
    environment,        \* process.env
    now,                \* the clock behind Date.now()
    buildPc,            \* position of the processImages call
    caller,             \* who made the call: "direct" or "action"
    imageUrls,          \* the argument of the call
    envReads,           \* the process.env names the call has read, in order
    branches,           \* the backend branches the call has entered
    uploads,            \* the cloudinary.uploader.upload calls of the call
    fetches,            \* the fetch() calls of the call
    buildResult,        \* what the call returned or threw
    prevDemo,           \* the last demo result returned before this call
    actionBody,         \* what request.json() yields for the POST
    actionReply         \* the Response of the image-process handler

buildVars == <<service, environment, now, buildPc, caller, imageUrls,
               envReads, branches, uploads, fetches, buildResult, prevDemo,
               actionBody, actionReply>>

\* update-product-image POST handler: one request at a time
VARIABLES
    updatePc,           \* position of the handler
    updateBody,         \* what request.json() yields for the POST
    mutations,          \* the productUpdate mutations issued for the request
    mutationAnswer,     \* what the mutation settled with
    updateReply         \* the Response the handler returned

updateVars == <<updatePc, updateBody, mutations, mutationAnswer, updateReply>>

\* Extension: the loadImages effect, run once when the modal is mounted
\* (data.selected is fixed for the lifetime of the modal)
VARIABLES
    selected,           \* data.selected
    loadPc,             \* position of the effect
    loadingImages,      \* useState(true)
    imageError,         \* useState(null)
    loadRequest         \* the request the effect posted

loadVars == <<selected, loadPc, loadingImages, imageError, loadRequest>>

\* the state of the component and of an invocation other than products
runLocals == <<processing, currentStep, processedCount, processingResults,
               results, i, processRes, combinedImageUrl, pc, inflight,
               fetchLog, sent>>

vars == <<runVars, layoutVars, fetchVars, buildVars, updateVars, loadVars>>

\* --- the groups a run can be given -------------------------------------
ProductGids == {"gid://shopify/Product/1", "gid://shopify/Product/2"}

ProductTitle(gid) ==
    IF gid = "gid://shopify/Product/1" THEN "Starter Kit" ELSE "Gift Box"

ProductImageUrls(gid) ==
    IF gid = "gid://shopify/Product/1"
    THEN <<"https://cdn.shop/a.jpg", "https://cdn.shop/b.jpg">>
    ELSE <<"https://cdn.shop/c.jpg">>

ProductGroup(gid) ==
    [productId |-> gid, productTitle |-> ProductTitle(gid),
     imageUrls |-> ProductImageUrls(gid)]

SeqsUpTo(S, n) == UNION {[1..k -> S] : k \in 0..n}

GroupLists == SeqsUpTo({ProductGroup(g) : g \in ProductGids}, MaxGroups)

\* --- what a fetch() of the run can settle with --------------------------
\* a rejected promise (network error)
FetchThrown == [kind |-> "throw", message |-> "Failed to fetch"]

\* a response whose body is not JSON: res.json() rejects
BadJson(st) == [kind |-> "badjson", ok |-> st = 200, status |-> st,
                message |-> "Unexpected token < in JSON"]

JsonResponse(st, body) ==
    [kind |-> "json", ok |-> st = 200, status |-> st, body |-> body]

CombinedUrls == {"https://res/one.jpg", "https://res/two.jpg"}

ErrorStatuses == {400, 500}

ProcessResponses ==
    {FetchThrown, BadJson(200)}
    \cup {JsonResponse(st, [error |-> "Cloudinary processing failed"]) :
            st \in ErrorStatuses}
    \cup {JsonResponse(200, [combinedImageUrl |-> u]) : u \in CombinedUrls}
    \cup {JsonResponse(200, [combinedImageUrl |-> ""]),
          JsonResponse(200, [processedAt |-> "2025-01-01T00:00:00.000Z"])}

MediaCounts == {1, 2}

UpdateResponses ==
    {FetchThrown, BadJson(200)}
    \cup {JsonResponse(st, [success |-> FALSE, error |-> "Product update failed"]) :
            st \in ErrorStatuses}
    \cup {JsonResponse(200, [success |-> TRUE, mediaCount |-> m]) :
            m \in MediaCounts}
    \cup {JsonResponse(200, [success |-> FALSE, error |-> "Product update failed"]),
          JsonResponse(200, [success |-> FALSE])}

\* placeholder for "no request was made" in fetchLog
NoRequest == [kind |-> "none"]

\* --- the outcome records pushed to results ------------------------------
\* the failure record without its success flag
OutcomeCompositeNotOk_NoFlag(product, status) ==
    [productId |-> product.productId, productTitle |-> product.productTitle,
     error |-> <<"Failed to generate composite: ", status>>]

\* part_003:116-121
OutcomeCompositeNotOk(product, status) ==
    [productId |-> product.productId, productTitle |-> product.productTitle,
     success |-> FALSE,
     error |-> <<"Failed to generate composite: ", status>>]

\* part_003:130-135
OutcomeNoUrl(product) ==
    [productId |-> product.productId, productTitle |-> product.productTitle,
     success |-> FALSE,
     error |-> <<"No composite image URL returned">>]

\* part_003:158-164
OutcomeUpdateNotOk(product, url, status) ==
    [productId |-> product.productId, productTitle |-> product.productTitle,
     success |-> FALSE, combinedImageUrl |-> url,
     error |-> <<"Failed to update product: ", status>>]

\* part_003:172-178
OutcomeUpdated(product, url, updateData) ==
    [productId |-> product.productId, productTitle |-> product.productTitle,
     success |-> TRUE, combinedImageUrl |-> url,
     mediaCount |-> updateData.mediaCount]

\* the else branch pushing the record of the success branch
OutcomeUpdateFailed_Success(product, url, updateData) ==
    [productId |-> product.productId, productTitle |-> product.productTitle,
     success |-> TRUE, combinedImageUrl |-> url,
     mediaCount |-> 0]

\* part_003:180-186  (updateData.error || 'Update failed')
OutcomeUpdateFailed(product, url, updateData) ==
    [productId |-> product.productId, productTitle |-> product.productTitle,
     success |-> FALSE, combinedImageUrl |-> url,
     error |-> IF "error" \in DOMAIN updateData /\ updateData.error # ""
               THEN <<updateData.error>> ELSE <<"Update failed">>]

\* part_003:194-201  the catch of the per-product try
OutcomeThrown(product, message) ==
    [productId |-> product.productId, productTitle |-> product.productTitle,
     success |-> FALSE, error |-> <<message>>]

\* --- requests -----------------------------------------------------------
\* part_003:108-113
ProcessRequest(idx, product) ==
    [url |-> "/app/api/image-process", index |-> idx,
     body |-> [imageUrls |-> product.imageUrls]]

\* the alt text made of the title alone
AltText_TitleOnly(product) == <<product.productTitle>>

\* part_003:145  `${product.productTitle} Bundle Components`
AltText(product) == <<product.productTitle, " Bundle Components">>

\* part_003:147-155
UpdateRequest(idx, product, url) ==
    [url |-> "/app/api/update-product-image", index |-> idx,
     body |-> [productId |-> product.productId, imageUrl |-> url,
               altText |-> AltText(product)]]

\* ------------------------------------------------------------------------
\* Init
\* ------------------------------------------------------------------------
InitRun ==
    /\ products \in GroupLists
    /\ processing = FALSE
    /\ currentStep = <<>>
    /\ processedCount = 0
    /\ processingResults = <<>>
    /\ results = <<>>
    /\ i = 0
    /\ processRes = NoRequest
    /\ combinedImageUrl = ""
    /\ pc = "idle"
    /\ inflight = {}
    /\ fetchLog = <<>>
    /\ sent = <<>>

\* ------------------------------------------------------------------------
\* generateAndUpdateBundles
\* ------------------------------------------------------------------------
\* part_003:78-92  entry: the empty guard, then the resets before the loop
Start ==
    /\ pc \in {"idle", "done"}
    /\ IF Len(products) = 0
       THEN /\ processingResults' =
                   <<[error |-> <<"No products available to process">>]>>
            /\ pc' = "done"
            /\ UNCHANGED <<processing, processedCount, results, i, fetchLog,
                           sent>>
       ELSE /\ processing' = TRUE
            /\ processingResults' = <<>>
            /\ processedCount' = 0
            /\ results' = <<>>
            /\ i' = 0
            /\ fetchLog' = <<>>
            /\ sent' = <<>>
            /\ pc' = "loop"
    /\ UNCHANGED <<products, currentStep, processRes, combinedImageUrl,
                   inflight>>

\* the loop test off by one: i < products.length - 1
LoopHead_StopsEarly ==
    /\ pc = "loop"
    /\ IF i < Len(products) - 1
       THEN /\ currentStep' = <<"Generating composite ", i + 1, " of ",
                                Len(products), "...">>
            /\ inflight' = inflight \cup {ProcessRequest(i, products[i + 1])}
            /\ sent' = Append(sent, ProcessRequest(i, products[i + 1]))
            /\ pc' = "awaitProcess"
            /\ UNCHANGED <<processingResults, processing>>
       ELSE /\ processingResults' = results
            /\ currentStep' = <<>>
            /\ processing' = FALSE
            /\ pc' = "done"
            /\ UNCHANGED <<inflight, sent>>
    /\ UNCHANGED <<products, processedCount, results, i, processRes,
                   combinedImageUrl, fetchLog>>

\* the composite request fired without awaiting it: the loop moves on
LoopHead_NoAwait ==
    /\ pc = "loop"
    /\ IF i < Len(products)
       THEN /\ currentStep' = <<"Generating composite ", i + 1, " of ",
                                Len(products), "...">>
            /\ inflight' = inflight \cup {ProcessRequest(i, products[i + 1])}
            /\ sent' = Append(sent, ProcessRequest(i, products[i + 1]))
            /\ i' = i + 1
            /\ UNCHANGED <<processingResults, processing, pc>>
       ELSE /\ processingResults' = results
            /\ currentStep' = <<>>
            /\ processing' = FALSE
            /\ pc' = "done"
            /\ UNCHANGED <<inflight, i, sent>>
    /\ UNCHANGED <<products, processedCount, results, processRes,
                   combinedImageUrl, fetchLog>>

\* part_003:94-113  loop test; step 1 issues the composite request.
\* part_003:206-214 after the loop: publish results, clear step, finally
LoopHead ==
    /\ pc = "loop"
    /\ IF i < Len(products)
       THEN /\ currentStep' = <<"Generating composite ", i + 1, " of ",
                                Len(products), "...">>
            /\ inflight' = inflight \cup {ProcessRequest(i, products[i + 1])}
            /\ sent' = Append(sent, ProcessRequest(i, products[i + 1]))
            /\ pc' = "awaitProcess"
            /\ UNCHANGED <<processingResults, processing>>
       ELSE /\ processingResults' = results
            /\ currentStep' = <<>>
            /\ processing' = FALSE
            /\ pc' = "done"
            /\ UNCHANGED <<inflight, sent>>
    /\ UNCHANGED <<products, processedCount, results, i, processRes,
                   combinedImageUrl, fetchLog>>

\* the counter advanced for successful groups only
Recorded_CountsSuccesses(outcome, log) ==
    /\ results' = Append(results, outcome)
    /\ fetchLog' = Append(fetchLog, log)
    /\ processedCount' =
           (IF "success" \in DOMAIN outcome /\ outcome.success = TRUE
            THEN processedCount + 1 ELSE processedCount)
    /\ i' = i + 1
    /\ processRes' = NoRequest
    /\ combinedImageUrl' = ""
    /\ pc' = "loop"

\* the end of one iteration that recorded `outcome`: continue / fall through
\* to the loop test with setProcessedCount(productNum) done; the block-scoped
\* processRes and combinedImageUrl go out of scope
Recorded(outcome, log) ==
    /\ results' = Append(results, outcome)
    /\ fetchLog' = Append(fetchLog, log)
    /\ processedCount' = i + 1
    /\ i' = i + 1
    /\ processRes' = NoRequest
    /\ combinedImageUrl' = ""
    /\ pc' = "loop"

\* part_003:115-138 and 194-203  the composite step failed: one outcome
ProcessFailed(product, res) ==
    IF res.kind = "throw" \/ (res.kind = "badjson" /\ res.ok)
    THEN OutcomeThrown(product, res.message)
    ELSE IF ~res.ok
    THEN OutcomeCompositeNotOk(product, res.status)
    ELSE OutcomeNoUrl(product)

\* part_003:115, 126-129  processRes.ok and a truthy processData.combinedImageUrl
HasCombinedUrl(res) ==
    /\ res.kind = "json"
    /\ res.ok
    /\ "combinedImageUrl" \in DOMAIN res.body
    /\ res.body.combinedImageUrl # ""

\* part_003:108-155  the composite request settles; on a URL the update
\* request is issued at once
ProcessSettles(res) ==
    /\ pc = "awaitProcess"
    /\ ProcessRequest(i, products[i + 1]) \in inflight
    /\ LET product == products[i + 1]
           settled == inflight \ {ProcessRequest(i, product)}
       IN
       IF HasCombinedUrl(res)
       THEN /\ processRes' = res
            /\ combinedImageUrl' = res.body.combinedImageUrl
            /\ currentStep' = <<"Updating product ", i + 1, " of ",
                                Len(products), "...">>
            /\ inflight' = settled \cup
                   {UpdateRequest(i, product, res.body.combinedImageUrl)}
            /\ sent' = Append(sent,
                   UpdateRequest(i, product, res.body.combinedImageUrl))
            /\ pc' = "awaitUpdate"
            /\ UNCHANGED <<results, fetchLog, processedCount, i>>
       ELSE /\ Recorded(ProcessFailed(product, res),
                        [process |-> res, update |-> NoRequest])
            /\ inflight' = settled
            /\ UNCHANGED <<currentStep, sent>>
    /\ UNCHANGED <<products, processing, processingResults>>

\* part_003:157-203  the outcome of an update request that settled with res
UpdateOutcome(product, url, res) ==
    IF res.kind = "throw" \/ (res.kind = "badjson" /\ res.ok)
    THEN OutcomeThrown(product, res.message)
    ELSE IF ~res.ok
    THEN OutcomeUpdateNotOk(product, url, res.status)
    ELSE IF res.body.success
    THEN OutcomeUpdated(product, url, res.body)
    ELSE OutcomeUpdateFailed(product, url, res.body)

\* part_003:147-203  the update request settles
UpdateSettles(res) ==
    /\ pc = "awaitUpdate"
    /\ UpdateRequest(i, products[i + 1], combinedImageUrl) \in inflight
    /\ inflight' = inflight \
                     {UpdateRequest(i, products[i + 1], combinedImageUrl)}
    /\ Recorded(UpdateOutcome(products[i + 1], combinedImageUrl, res),
                [process |-> processRes, update |-> res])
    /\ UNCHANGED <<products, processing, processingResults, currentStep,
                   sent>>

\* ------------------------------------------------------------------------
\* calculateGridLayout  (part_006:33-84 with 1024-pixel cells and 3 -> 2x2,
\*                       part_005:42-93 with 400-pixel cells and 3 -> 3x1)
\* ------------------------------------------------------------------------
\* the cell size tells the two variants apart
CellSizes == {1024, 400}

\* Math.ceil(Math.sqrt(n)) : the least c with c*c >= n
CeilSqrt(n) == CHOOSE c \in 0..n : c * c >= n /\ \A d \in 0..(c - 1) : d * d < n

\* Math.ceil(n / d) for n >= 0, d > 0
CeilDiv(n, d) == (n + d - 1) \div d

\* part_006:37-58, part_005:46-67  the column count of the if-chain
GridCols(n, cell) ==
    IF n = 1 THEN 1
    ELSE IF n = 2 THEN 2
    ELSE IF n = 3 THEN (IF cell = 1024 THEN 2 ELSE 3)
    ELSE IF n = 4 THEN 2
    ELSE IF n <= 6 THEN 3
    ELSE IF n <= 9 THEN 3
    ELSE CeilSqrt(n)

\* the 5-6 row tested with < instead of <=
GridRows_StrictSix(n, cell) ==
    IF n = 1 THEN 1
    ELSE IF n = 2 THEN 1
    ELSE IF n = 3 THEN (IF cell = 1024 THEN 2 ELSE 1)
    ELSE IF n = 4 THEN 2
    ELSE IF n < 6 THEN 2
    ELSE IF n <= 9 THEN 3
    ELSE CeilDiv(n, GridCols(n, cell))

\* a square grid above nine images
GridRows_Square(n, cell) ==
    IF n = 1 THEN 1
    ELSE IF n = 2 THEN 1
    ELSE IF n = 3 THEN (IF cell = 1024 THEN 2 ELSE 1)
    ELSE IF n = 4 THEN 2
    ELSE IF n <= 6 THEN 2
    ELSE IF n <= 9 THEN 3
    ELSE CeilSqrt(n)

\* part_006:37-58, part_005:46-67  the row count of the if-chain
GridRows(n, cell) ==
    IF n = 1 THEN 1
    ELSE IF n = 2 THEN 1
    ELSE IF n = 3 THEN (IF cell = 1024 THEN 2 ELSE 1)
    ELSE IF n = 4 THEN 2
    ELSE IF n <= 6 THEN 2
    ELSE IF n <= 9 THEN 3
    ELSE CeilDiv(n, GridCols(n, cell))

\* the column taken modulo the row count
CellPosition_ByRows(idx, nCols, nRows, cw, ch) ==
    [x |-> (idx % nRows) * cw, y |-> (idx \div nCols) * ch]

\* part_006:67-72  col = i % cols, row = Math.floor(i / cols)
CellPosition(idx, nCols, nRows, cw, ch) ==
    [x |-> (idx % nCols) * cw, y |-> (idx \div nCols) * ch]

InitLayout ==
    /\ layoutPc = "idle"
    /\ imageCount = 0
    /\ cols = 0
    /\ rows = 0
    /\ cellWidth = 0
    /\ cellHeight = 0
    /\ canvasWidth = 0
    /\ canvasHeight = 0
    /\ positions = <<>>
    /\ li = 0
    /\ layoutLog = <<>>

\* the positions array kept at module level: not emptied by a call
LayoutCall_SharedPositions(n, cell) ==
    /\ layoutPc = "idle"
    /\ Len(layoutLog) < MaxCalls
    /\ imageCount' = n
    /\ cols' = GridCols(n, cell)
    /\ rows' = GridRows(n, cell)
    /\ cellWidth' = cell
    /\ cellHeight' = cell
    /\ canvasWidth' = GridCols(n, cell) * cell
    /\ canvasHeight' = GridRows(n, cell) * cell
    /\ li' = 0
    /\ layoutPc' = "positions"
    /\ UNCHANGED <<layoutLog, positions>>

\* the canvas as high as it is wide
LayoutCall_SquareCanvas(n, cell) ==
    /\ layoutPc = "idle"
    /\ Len(layoutLog) < MaxCalls
    /\ imageCount' = n
    /\ cols' = GridCols(n, cell)
    /\ rows' = GridRows(n, cell)
    /\ cellWidth' = cell
    /\ cellHeight' = cell
    /\ canvasWidth' = GridCols(n, cell) * cell
    /\ canvasHeight' = GridCols(n, cell) * cell
    /\ positions' = <<>>
    /\ li' = 0
    /\ layoutPc' = "positions"
    /\ UNCHANGED layoutLog

\* part_006:33-65  entry, the if-chain, the sizes, the empty positions array
LayoutCall(n, cell) ==
    /\ layoutPc = "idle"
    /\ Len(layoutLog) < MaxCalls
    /\ imageCount' = n
    /\ cols' = GridCols(n, cell)
    /\ rows' = GridRows(n, cell)
    /\ cellWidth' = cell
    /\ cellHeight' = cell
    /\ canvasWidth' = GridCols(n, cell) * cell
    /\ canvasHeight' = GridRows(n, cell) * cell
    /\ positions' = <<>>
    /\ li' = 0
    /\ layoutPc' = "positions"
    /\ UNCHANGED layoutLog

\* part_006:66-73  one iteration of the positions loop
LayoutPush ==
    /\ layoutPc = "positions"
    /\ li < imageCount
    /\ positions' = Append(positions,
                       CellPosition(li, cols, rows, cellWidth, cellHeight))
    /\ li' = li + 1
    /\ UNCHANGED <<layoutPc, imageCount, cols, rows, cellWidth, cellHeight,
                   canvasWidth, canvasHeight, layoutLog>>

\* part_006:75-83  the loop is over: return the layout
LayoutReturn ==
    /\ layoutPc = "positions"
    /\ li >= imageCount
    /\ layoutLog' = Append(layoutLog,
           [imageCount |-> imageCount,
            layout |-> [rows |-> rows, cols |-> cols,
                        cellWidth |-> cellWidth, cellHeight |-> cellHeight,
                        canvasWidth |-> canvasWidth,
                        canvasHeight |-> canvasHeight,
                        positions |-> positions]])
    /\ layoutPc' = "idle"
    /\ UNCHANGED <<imageCount, cols, rows, cellWidth, cellHeight,
                   canvasWidth, canvasHeight, positions, li>>

ImageCounts == -1..MaxImageCount

\* ------------------------------------------------------------------------
\* fetch-bundle-images: action  (app.api.fetch-bundle-images.tsx:94-274)
\* ------------------------------------------------------------------------
\* An id is the sequence of its parts: the literal prefix is one part, every
\* further character is a part of its own.
GidPrefix == "gid://shopify/Product/"

Digits == {"0", "1", "2", "3", "4", "5", "6", "7", "8", "9"}

\* :121  /^gid:\/\/shopify\/Product\/\d+$/.test(id)
MatchesGid(id) ==
    /\ Len(id) >= 2
    /\ id[1] = GidPrefix
    /\ \A k \in 2..Len(id) : id[k] \in Digits

IdUniverse ==
    {<<GidPrefix, "1">>, <<GidPrefix, "2", "0">>,
     <<"badid">>, <<GidPrefix>>, <<GidPrefix, "1", "x">>,
     <<" ", GidPrefix, "1">>, <<"gid://shopify/ProductVariant/", "1">>}

\* JSON values a productIds property can hold
Undefined == [type |-> "undefined"]

JsonArray(items) == [type |-> "array", items |-> items]

ProductIdsValues ==
    {[type |-> "null"], [type |-> "string", value |-> <<GidPrefix, "1">>]}
    \cup {JsonArray(ids) : ids \in SeqsUpTo(IdUniverse, MaxIds)}

\* what request.json() can yield: a rejection, null, or an object
RequestBodies ==
    {[kind |-> "badjson"], [kind |-> "null"],
     [kind |-> "object", fields |-> [other |-> 1]]}
    \cup {[kind |-> "object", fields |-> [productIds |-> v]] :
            v \in ProductIdsValues}

\* Response.json(body, {status})
JsonReply(status, body) == [status |-> status, body |-> body]

NoResponse == [status |-> 0, body |-> [pending |-> TRUE]]

\* the format test applied to the first id only
ValidationReply_FirstIdOnly(v) ==
    IF v.type # "array"
    THEN JsonReply(400, [error |-> <<"productIds must be an array">>])
    ELSE IF Len(v.items) = 0
    THEN JsonReply(400, [error |-> <<"productIds array is empty">>])
    ELSE IF ~MatchesGid(v.items[1])
    THEN JsonReply(400, [error |-> <<"Invalid product ID format: ",
                                     v.items[1]>>])
    ELSE NoResponse

\* :101-133  the validation block: the 400 reply of the first check that
\* fails, or NoResponse when the list passes
ValidationReply(v) ==
    IF v.type # "array"
    THEN JsonReply(400, [error |-> <<"productIds must be an array">>])
    ELSE IF Len(v.items) = 0
    THEN JsonReply(400, [error |-> <<"productIds array is empty">>])
    ELSE IF \E k \in 1..Len(v.items) : ~MatchesGid(v.items[k])
    THEN LET bad == CHOOSE k \in 1..Len(v.items) :
                       /\ ~MatchesGid(v.items[k])
                       /\ \A j \in 1..(k - 1) : MatchesGid(v.items[j])
         IN  JsonReply(400, [error |-> <<"Invalid product ID format: ",
                                         v.items[bad]>>])
    ELSE NoResponse

\* :260-273  the catch of the handler
CaughtReply(message) == JsonReply(500, [error |-> <<message>>])

\* --- what a bundle-components query can answer ---------------------------
ComponentUniverse ==
    {[id |-> "gid://shopify/Product/91", title |-> "Soap",
      featuredMedia |-> [image |-> [url |-> "https://cdn.shop/soap.jpg",
                                    altText |-> "Soap bar"]]],
     [id |-> "gid://shopify/Product/92", title |-> "Towel",
      featuredMedia |-> [type |-> "null"]],
     [id |-> "gid://shopify/Product/93", title |-> "Candle",
      featuredMedia |-> [previewOnly |-> TRUE]]}

TitleOf(id) == IF id = <<GidPrefix, "1">> THEN "Starter Kit" ELSE "Gift Box"

ComponentLists == SeqsUpTo(ComponentUniverse, MaxComponents)

QueriedIds == {id \in IdUniverse : MatchesGid(id)}

\* every answer to every query: the call throws, the reply carries errors,
\* or data with no product, or with a product, its bundleComponents absent
\* or present
AllQueryAnswers ==
    {[kind |-> "throw", message |-> "GraphQL Client: Throttled"],
     [kind |-> "errors"],
     [kind |-> "data", product |-> [type |-> "null"]]}
    \cup {[kind |-> "data", product |-> [id |-> id, title |-> TitleOf(id)]] :
            id \in QueriedIds}
    \cup {[kind |-> "data",
           product |-> [id |-> id, title |-> TitleOf(id), edges |-> e]] :
            id \in QueriedIds, e \in ComponentLists}

\* the answers the query of one id can get: a product comes with that id
QueryAnswers(answer, id) ==
    IF answer.kind \in {"throw", "errors"} THEN TRUE
    ELSE IF ~MatchesGid(id) THEN FALSE
    ELSE IF "type" \in DOMAIN answer.product THEN TRUE
    ELSE answer.product.id = id

\* :179-192  how a query ends for the loop: it throws, or is skipped for its
\* errors or for its missing product, or gives a product
LookupOutcome(answer) ==
    IF answer.kind = "throw" THEN "throw"
    ELSE IF answer.kind = "errors" THEN "errors"
    ELSE IF "type" \in DOMAIN answer.product THEN "notfound"
    ELSE "found"

\* one count for a product that has components
ComponentsCounted_PerProduct(edges) == IF edges = <<>> THEN 0 ELSE 1

\* :202-203  componentsFound++ for every edge
ComponentsCounted(edges) == Len(edges)

\* :194  product.bundleComponents?.edges || []
EdgesOf(product) ==
    IF "edges" \in DOMAIN product THEN product.edges ELSE <<>>

\* :210  !featuredMedia || !featuredMedia.image
HasFeaturedImage(component) ==
    "image" \in DOMAIN component.featuredMedia

\* :214-221
ComponentImage(product, component) ==
    [productId |-> product.id, productTitle |-> product.title,
     componentProductId |-> component.id,
     componentProductTitle |-> component.title,
     imageUrl |-> component.featuredMedia.image.url,
     altText |-> component.featuredMedia.image.altText]

\* the loop leaving at the first component without an image
RECURSIVE ProductImages_Break(_, _)
ProductImages_Break(product, edges) ==
    IF edges = <<>> \/ ~HasFeaturedImage(Head(edges)) THEN <<>>
    ELSE <<ComponentImage(product, Head(edges))>>
         \o ProductImages_Break(product, Tail(edges))

\* :202-222  the images of the components that have one, in component order
RECURSIVE ProductImages(_, _)
ProductImages(product, edges) ==
    IF edges = <<>> THEN <<>>
    ELSE (IF HasFeaturedImage(Head(edges))
          THEN <<ComponentImage(product, Head(edges))>> ELSE <<>>)
         \o ProductImages(product, Tail(edges))

\* the product added whatever its images
KeepsProduct_Always(images) == TRUE

\* :225  if (productImages.length > 0)
KeepsProduct(images) == Len(images) > 0

\* :226  productImages.map((img) => img.imageUrl)
ImageUrlsOf(images) == [k \in 1..Len(images) |-> images[k].imageUrl]

InitFetch ==
    /\ fetchPc = "idle"
    /\ reqBody = [kind |-> "none"]
    /\ productIds = Undefined
    /\ fIdx = 0
    /\ queries = <<>>
    /\ lookups = <<>>
    /\ lastAnswer = [kind |-> "none"]
    /\ productsWithImages = <<>>
    /\ productsFound = 0
    /\ componentsFound = 0
    /\ totalImagesFound = 0
    /\ response = NoResponse

\* :97-144  a request arrives: parse, destructure, validate, set up the loop
\* (every request runs on locals of its own: one request is followed)
FetchRequest(body) ==
    /\ fetchPc = "idle"
    /\ reqBody' = body
    /\ fIdx' = 0
    /\ queries' = <<>>
    /\ lookups' = <<>>
    /\ lastAnswer' = [kind |-> "none"]
    /\ productsWithImages' = <<>>
    /\ productsFound' = 0
    /\ componentsFound' = 0
    /\ totalImagesFound' = 0
    /\ IF body.kind = "badjson"
       THEN /\ response' = CaughtReply("Unexpected end of JSON input")
            /\ productIds' = Undefined
            /\ fetchPc' = "responded"
       ELSE IF body.kind = "null"
       THEN /\ response' = CaughtReply(
                   "Cannot destructure property 'productIds' of 'body'")
            /\ productIds' = Undefined
            /\ fetchPc' = "responded"
       ELSE LET v == IF "productIds" \in DOMAIN body.fields
                     THEN body.fields.productIds ELSE Undefined
            IN  /\ productIds' = v
                /\ response' = ValidationReply(v)
                /\ fetchPc' = IF ValidationReply(v) = NoResponse
                              THEN "loop" ELSE "responded"

\* :146-177  next id of the for-of: issue its query;
\* :244-259  or, after the last id, return the result
FetchLoop ==
    /\ fetchPc = "loop"
    /\ IF fIdx < Len(productIds.items)
       THEN /\ queries' = Append(queries, productIds.items[fIdx + 1])
            /\ fetchPc' = "awaitQuery"
            /\ UNCHANGED response
       ELSE /\ response' = JsonReply(200,
                   [products |-> productsWithImages,
                    metadata |-> [requestedProducts |-> Len(productIds.items),
                                  productsFound |-> productsFound,
                                  componentsFound |-> componentsFound,
                                  imagesFound |-> totalImagesFound]])
            /\ fetchPc' = "responded"
            /\ UNCHANGED queries
    /\ UNCHANGED <<reqBody, productIds, fIdx, lookups, lastAnswer,
                   productsWithImages, productsFound, componentsFound,
                   totalImagesFound>>

\* :179-242  the query of the current id settles
QuerySettles(answer) ==
    /\ fetchPc = "awaitQuery"
    /\ QueryAnswers(answer, productIds.items[fIdx + 1])
    /\ lastAnswer' = answer
    /\ lookups' = Append(lookups, LookupOutcome(answer))
    /\ IF answer.kind = "throw"
       THEN /\ response' = CaughtReply(answer.message)
            /\ fetchPc' = "responded"
            /\ UNCHANGED <<fIdx, productsWithImages, productsFound,
                           componentsFound, totalImagesFound>>
       ELSE /\ fIdx' = fIdx + 1
            /\ fetchPc' = "loop"
            /\ UNCHANGED response
            /\ IF answer.kind = "errors" \/ "type" \in DOMAIN answer.product
               THEN UNCHANGED <<productsWithImages, productsFound,
                                componentsFound, totalImagesFound>>
               ELSE LET product == answer.product
                        images == ProductImages(product, EdgesOf(product))
                    IN  /\ productsFound' = productsFound + 1
                        /\ componentsFound' =
                               componentsFound
                                   + ComponentsCounted(EdgesOf(product))
                        /\ IF KeepsProduct(images)
                           THEN /\ totalImagesFound' =
                                       totalImagesFound
                                           + Len(ImageUrlsOf(images))
                                /\ productsWithImages' =
                                       Append(productsWithImages,
                                         [productId |-> product.id,
                                          productTitle |-> product.title,
                                          componentImages |-> images,
                                          imageUrls |-> ImageUrlsOf(images)])
                           ELSE UNCHANGED <<productsWithImages,
                                            totalImagesFound>>
    /\ UNCHANGED <<reqBody, productIds, queries>>


\* ------------------------------------------------------------------------
\* Composite builder: processImages and the image-process POST handler
\* ------------------------------------------------------------------------
\* the two processImages modules: Cloudinary only, and switched by
\* IMAGE_API_MODE
GridService == "src/unnamed/part_006"
FlaggedService == "src/unnamed/part_005"
Services == {GridService, FlaggedService}

\* part_006:60-61, part_005:69-70
CellSizeOf(svc) == IF svc = GridService THEN 1024 ELSE 400

\* --- process.env ----------------------------------------------------------
Unset == [defined |-> FALSE]
EnvString(text) == [defined |-> TRUE, value |-> text]

CloudinaryNames ==
    <<"CLOUDINARY_CLOUD_NAME", "CLOUDINARY_API_KEY", "CLOUDINARY_API_SECRET">>

EnvNames == {"IMAGE_API_MODE", "IMGBB_API_KEY"}
            \cup {CloudinaryNames[k] : k \in 1..3}

ModeValues ==
    {Unset, EnvString(""), EnvString("demo"), EnvString("cloudinary"),
     EnvString("imgbb"), EnvString("s3")}

SecretValues == {Unset, EnvString("configured")}

\* the environments a deployment of one service is run in: the settings
\* of a backend vary one by one where that backend is the selected one and
\* are all set or all unset elsewhere; part_006 reads neither
\* IMAGE_API_MODE nor IMGBB_API_KEY
Environments(svc) ==
    {e \in [EnvNames -> ModeValues \cup SecretValues] :
        /\ e["IMAGE_API_MODE"] \in
               (IF svc = GridService THEN {Unset} ELSE ModeValues)
        /\ e["IMGBB_API_KEY"] \in
               (IF e["IMAGE_API_MODE"] = EnvString("imgbb")
                THEN SecretValues ELSE {Unset})
        /\ \A k \in 1..3 : e[CloudinaryNames[k]] \in SecretValues
        /\ (svc = FlaggedService
               /\ e["IMAGE_API_MODE"] # EnvString("cloudinary"))
           => \A k \in 2..3 : e[CloudinaryNames[k]] = e[CloudinaryNames[1]]}

\* JavaScript truthiness of a process.env value
Truthy(v) == v.defined /\ v.value # ""

\* the mode defaulting to the real backend
ApiMode_DefaultCloudinary(env) ==
    IF Truthy(env["IMAGE_API_MODE"]) THEN env["IMAGE_API_MODE"].value
    ELSE "cloudinary"

\* part_005:131  process.env.IMAGE_API_MODE || "demo"
ApiMode(env) ==
    IF Truthy(env["IMAGE_API_MODE"]) THEN env["IMAGE_API_MODE"].value
    ELSE "demo"

\* the check passing as soon as one credential is set
CredentialsMissing_AllAbsent(env) ==
    \A k \in 1..3 : ~Truthy(env[CloudinaryNames[k]])

\* part_006:120, part_005:182  !cloudName || !apiKey || !apiSecret
CredentialsMissing(env) ==
    \E k \in 1..3 : ~Truthy(env[CloudinaryNames[k]])

\* --- URLs -----------------------------------------------------------------
\* a string as the parts a URL parser splits it in: scheme, ":", the rest
UrlUniverse ==
    {<<"https", ":", "//cdn.shop/soap.jpg">>,
     <<"https", ":", "//cdn.shop/candle.jpg">>,
     <<"not a url">>}

\* part_006:109, part_005:121  new URL(url) does not throw: an absolute URL
\* with a scheme, and, for https, a host
ParsesAsUrl(url) ==
    /\ Len(url) >= 2
    /\ url[1] \in {"https", "http", "data", "mailto"}
    /\ url[2] = ":"
    /\ url[1] \in {"https", "http"} => (Len(url) >= 3 /\ url[3] # "//")

\* the arguments processImages is called with
BuildInputs == {Undefined} \cup {JsonArray(l) : l \in SeqsUpTo(UrlUniverse, MaxUrls)}

\* what request.json() can yield for the image-process POST
ActionBodies ==
    {[kind |-> "badjson"], [kind |-> "null"],
     [kind |-> "object", fields |-> [other |-> 1]],
     [kind |-> "object",
      fields |-> [imageUrls |-> [type |-> "string",
                                 value |-> <<"https", ":", "//cdn.shop/soap.jpg">>]]]}
    \cup {[kind |-> "object", fields |-> [imageUrls |-> v]] :
            v \in BuildInputs \ {Undefined}}

\* --- outcomes of a call -----------------------------------------------------
Pending == [kind |-> "pending"]
Thrown(message) == [kind |-> "thrown", message |-> message]
Returned(value) == [kind |-> "returned", value |-> value]

\* the URL test skipped
InputError_NoUrlTest(v) ==
    IF v.type # "array" \/ v.items = <<>>
    THEN <<"No image URLs provided">>
    ELSE <<>>

\* part_006:101-113, part_005:114-126  the message of the validation error,
\* '' when the argument passes
InputError(v) ==
    IF v.type # "array" \/ v.items = <<>>
    THEN <<"No image URLs provided">>
    ELSE IF \E k \in 1..Len(v.items) : ~ParsesAsUrl(v.items[k])
    THEN LET k == CHOOSE j \in 1..Len(v.items) :
                     /\ ~ParsesAsUrl(v.items[j])
                     /\ \A h \in 1..(j - 1) : ParsesAsUrl(v.items[h])
         IN  <<"Invalid URL format: ">> \o v.items[k]
    ELSE <<>>

\* part_006:120-124, part_005:182-186
ConfigurationMissing ==
    <<"Cloudinary configuration missing. Required: ",
      "CLOUDINARY_CLOUD_NAME", ", ", "CLOUDINARY_API_KEY", ", ",
      "CLOUDINARY_API_SECRET">>

\* part_005:372-376
UnknownMode(mode) ==
    <<"Unknown IMAGE_API_MODE: ", mode,
      ". Valid options: demo, cloudinary, imgbb">>

\* part_005:143-163  the demo result built at time t
DemoResult(v, t) ==
    [combinedImageUrl |->
         <<"https://picsum.photos/seed/", ToString(t), "/800/600">>,
     processedAt |-> t,
     metadata |-> [originalCount |-> Len(v.items),
                   processingMethod |-> <<"demo-collage">>,
                   apiUsed |-> "Lorem Picsum (Free Demo API)"]]

\* part_006:138-142  the upload of the url at index idx, started at time t;
\* Cloudinary stores it as <folder>/<public_id>
Upload(url, idx, t) ==
    [url |-> url,
     public_id |-> [folder |-> "image-processing", sep |-> "/",
                    stamp |-> t, index |-> idx],
     state |-> "pending"]

\* part_006:173  publicIds[i].replace(/\//g, ":")
OverlayId(publicId) == [publicId EXCEPT !.sep = ":"]

\* the chain whose overlays start at the first cell
Transformations_FromFirstCell(ups, cell) ==
    LET n == Len(ups)
        at(k) == CellPosition(k - 2, GridCols(n, cell), GridRows(n, cell),
                              cell, cell)
    IN  [k \in 1..n |->
           IF k = 1
           THEN [width |-> cell, height |-> cell, crop |-> "fill",
                 gravity |-> "auto"]
           ELSE [overlay |-> OverlayId(ups[k].public_id),
                 width |-> cell, height |-> cell, crop |-> "fill",
                 gravity |-> "north_west", x |-> at(k).x, y |-> at(k).y]]

\* part_006:159-181  the transformation chain: the base cell, then one
\* overlay per further image at its layout position
Transformations(ups, cell) ==
    LET n == Len(ups)
        at(k) == CellPosition(k - 1, GridCols(n, cell), GridRows(n, cell),
                              cell, cell)
    IN  [k \in 1..n |->
           IF k = 1
           THEN [width |-> cell, height |-> cell, crop |-> "fill",
                 gravity |-> "auto"]
           ELSE [overlay |-> OverlayId(ups[k].public_id),
                 width |-> cell, height |-> cell, crop |-> "fill",
                 gravity |-> "north_west", x |-> at(k).x, y |-> at(k).y]]

\* part_006:146-200, part_005:205-262  the result composed from the uploads
GridResult(ups, cell, t) ==
    LET n == Len(ups)
    IN  [combinedImageUrl |->
             [base |-> ups[1].public_id,
              transformation |-> Transformations(ups, cell),
              width |-> GridCols(n, cell) * cell,
              height |-> GridRows(n, cell) * cell],
         processedAt |-> t,
         metadata |-> [originalCount |-> n,
                       processingMethod |->
                           <<"cloudinary-grid-", ToString(GridCols(n, cell)),
                             "x", ToString(GridRows(n, cell))>>,
                       apiUsed |-> "Cloudinary"]]

\* how one upload can settle
UploadOutcomes == {"ok", "failed"}

\* how the ImgBB request can settle
ImgbbOutcomes ==
    {[kind |-> "ok", url |-> <<"https", ":", "//i.ibb.co/abc/soap.jpg">>],
     [kind |-> "notok", statusText |-> "Bad Request"],
     [kind |-> "reject", message |-> "fetch failed"]}

\* --- the image-process handler's replies ------------------------------------
NoReply == [status |-> 0, body |-> [pending |-> TRUE]]

\* part_007:259-268  the reply for a processImages call that has ended
ReplyOf(res) ==
    IF res.kind = "returned" THEN JsonReply(200, res.value)
    ELSE JsonReply(500, [error |-> res.message])

\* --- the call ---------------------------------------------------------------
InitBuild ==
    /\ service \in Services
    /\ environment \in Environments(service)
    /\ now = 0
    /\ buildPc = "idle"
    /\ caller = "none"
    /\ imageUrls = Undefined
    /\ envReads = <<>>
    /\ branches = <<>>
    /\ uploads = <<>>
    /\ fetches = <<>>
    /\ buildResult = Pending
    /\ prevDemo = [imageUrls |-> Undefined, combinedImageUrl |-> <<>>]
    /\ actionBody = [kind |-> "none"]
    /\ actionReply = NoReply

\* the call ends with res: the promise settles and, when the handler made
\* the call, the handler answers (part_007:259-268)
Ends(res, who) ==
    /\ buildResult' = res
    /\ buildPc' = res.kind
    /\ actionReply' = IF who = "action" THEN ReplyOf(res) ELSE NoReply

\* the call is left waiting for its external requests
Waits(position) ==
    /\ buildResult' = Pending
    /\ buildPc' = position
    /\ actionReply' = NoReply

\* the demo result of the call that has just ended, if it is one, else the
\* one before
LastDemo ==
    IF /\ buildResult.kind = "returned"
       /\ buildResult.value.metadata.processingMethod = <<"demo-collage">>
    THEN [imageUrls |-> imageUrls,
          combinedImageUrl |-> buildResult.value.combinedImageUrl]
    ELSE prevDemo

\* part_006:115-146, part_005:176-204  the real backend: the credentials are
\* read and tested, then every upload is started
CloudinaryBranch(v, who, t, reads) ==
    /\ envReads' = reads \o CloudinaryNames
    /\ fetches' = <<>>
    /\ IF CredentialsMissing(environment)
       THEN /\ uploads' = <<>>
            /\ Ends(Thrown(ConfigurationMissing), who)
       ELSE /\ uploads' = [k \in 1..Len(v.items) |->
                              Upload(v.items[k], k - 1, t)]
            /\ Waits("uploading")

\* part_005:274-293  the ImgBB branch: the key is read and tested, then the
\* first image is posted
ImgbbBranch(v, who, reads) ==
    /\ envReads' = Append(reads, "IMGBB_API_KEY")
    /\ uploads' = <<>>
    /\ IF ~Truthy(environment["IMGBB_API_KEY"])
       THEN /\ fetches' = <<>>
            /\ Ends(Thrown(<<"IMGBB_API_KEY environment variable is required">>),
                    who)
       ELSE /\ fetches' = <<[url |-> "https://api.imgbb.com/1/upload",
                             image |-> v.items[1]]>>
            /\ Waits("imgbb")

\* part_006:98-146, part_005:109-376  processImages(v) at time t, up to its
\* first await or its end
CallProcessImages(v, who, t) ==
    /\ imageUrls' = v
    /\ caller' = who
    /\ prevDemo' = LastDemo
    /\ IF InputError(v) # <<>>
       THEN /\ envReads' = <<>>
            /\ branches' = <<>>
            /\ uploads' = <<>>
            /\ fetches' = <<>>
            /\ Ends(Thrown(InputError(v)), who)
       ELSE IF service = GridService
       THEN /\ branches' = <<"cloudinary">>
            /\ CloudinaryBranch(v, who, t, <<>>)
       ELSE LET apiMode == ApiMode(environment)
                reads == <<"IMAGE_API_MODE">>
            IN  IF apiMode = "demo"
                THEN /\ branches' = <<"demo">>
                     /\ envReads' = reads
                     /\ uploads' = <<>>
                     /\ fetches' = <<>>
                     /\ Ends(Returned(DemoResult(v, t)), who)
                ELSE IF apiMode = "cloudinary"
                THEN /\ branches' = <<"cloudinary">>
                     /\ CloudinaryBranch(v, who, t, reads)
                ELSE IF apiMode = "imgbb"
                THEN /\ branches' = <<"imgbb">>
                     /\ ImgbbBranch(v, who, reads)
                ELSE /\ branches' = <<>>
                     /\ envReads' = reads
                     /\ uploads' = <<>>
                     /\ fetches' = <<>>
                     /\ Ends(Thrown(UnknownMode(apiMode)), who)

\* a direct call of processImages
BuildCall(v) ==
    /\ buildPc \in {"idle", "returned", "thrown"}
    /\ actionBody' = [kind |-> "none"]
    /\ CallProcessImages(v, "direct", now)
    /\ UNCHANGED <<service, environment, now>>

\* part_007:239-270  a POST to image-process: parse, destructure, test that
\* imageUrls is an array, call processImages
ImageProcessRequest(body) ==
    /\ buildPc \in {"idle", "returned", "thrown"}
    /\ actionBody' = body
    /\ IF body.kind = "object" /\ "imageUrls" \in DOMAIN body.fields
          /\ body.fields.imageUrls.type = "array"
       THEN CallProcessImages(body.fields.imageUrls, "action", now)
       ELSE /\ actionReply' =
                  IF body.kind = "badjson"
                  THEN JsonReply(500, [error |-> <<"Unexpected end of JSON input">>])
                  ELSE IF body.kind = "null"
                  THEN JsonReply(500, [error |->
                         <<"Cannot destructure property 'imageUrls' of 'body'">>])
                  ELSE JsonReply(400, [error |->
                         <<"Invalid request: imageUrls must be an array">>])
            /\ caller' = "action"
            /\ imageUrls' = Undefined
            /\ envReads' = <<>>
            /\ branches' = <<>>
            /\ uploads' = <<>>
            /\ fetches' = <<>>
            /\ buildResult' = Pending
            /\ buildPc' = "idle"
            /\ prevDemo' = LastDemo
    /\ UNCHANGED <<service, environment, now>>

\* Promise.allSettled in place of Promise.all: the failed uploads left out
UploadsSettled_AllSettled(ups) ==
    IF \E k \in 1..Len(ups) : ups[k].state = "pending" THEN "pending"
    ELSE IF \A k \in 1..Len(ups) : ups[k].state = "failed" THEN "rejected"
    ELSE "fulfilled"

\* part_006:145  Promise.all(uploadPromises): rejected by the first upload
\* that fails, fulfilled when every upload has succeeded
UploadsSettled(ups) ==
    IF \E k \in 1..Len(ups) : ups[k].state = "failed" THEN "rejected"
    ELSE IF \A k \in 1..Len(ups) : ups[k].state = "ok" THEN "fulfilled"
    ELSE "pending"

\* the uploads a composite is made of
Fulfilled(ups) == SelectSeq(ups, LAMBDA u : u.state = "ok")

\* part_006:145-208  one upload settles; the call goes on when Promise.all
\* settles
UploadSettles(k, outcome) ==
    /\ k \in 1..Len(uploads)
    /\ uploads[k].state = "pending"
    /\ uploads' = [uploads EXCEPT ![k].state = outcome]
    /\ IF buildPc = "uploading"
       THEN LET settled == UploadsSettled(uploads')
            IN  IF settled = "rejected"
                THEN Ends(Thrown(<<"Cloudinary processing failed: ",
                                   "Resource not found">>), caller)
                ELSE IF settled = "fulfilled"
                THEN Ends(Returned(GridResult(Fulfilled(uploads'),
                                              CellSizeOf(service), now)),
                          caller)
                ELSE UNCHANGED <<buildResult, buildPc, actionReply>>
       ELSE UNCHANGED <<buildResult, buildPc, actionReply>>
    /\ UNCHANGED <<service, environment, now, caller, imageUrls, envReads,
                   branches, fetches, prevDemo, actionBody>>

\* part_005:290-323  the ImgBB request settles
ImgbbSettles(outcome) ==
    /\ buildPc = "imgbb"
    /\ IF outcome.kind = "ok"
       THEN Ends(Returned([combinedImageUrl |-> outcome.url,
                           processedAt |-> now,
                           metadata |-> [originalCount |-> Len(imageUrls.items),
                                         processingMethod |-> <<"imgbb-upload">>,
                                         apiUsed |-> "ImgBB"]]), caller)
       ELSE IF outcome.kind = "notok"
       THEN Ends(Thrown(<<"ImgBB processing failed: ", "ImgBB API error: ",
                          outcome.statusText>>), caller)
       ELSE Ends(Thrown(<<"ImgBB processing failed: ", outcome.message>>),
                 caller)
    /\ UNCHANGED <<service, environment, now, caller, imageUrls, envReads,
                   branches, uploads, fetches, prevDemo, actionBody>>

\* a millisecond passes
Tick ==
    /\ now < MaxTime
    /\ now' = now + 1
    /\ UNCHANGED <<service, environment, buildPc, caller, imageUrls, envReads,
                   branches, uploads, fetches, buildResult, prevDemo,
                   actionBody, actionReply>>

\* no processImages call is made and no POST arrives
BuildQuiet ==
    /\ service = GridService
    /\ environment = [name \in EnvNames |-> Unset]

\* ------------------------------------------------------------------------
\* update-product-image POST handler
\* ------------------------------------------------------------------------
\* the values a field of the posted object can have: a string, as its parts
ProductIdFields == {<<GidPrefix, "1">>, <<"badid">>, <<>>}
ImageUrlFields == {<<"https", ":", "//res.cloudinary.com/demo/grid.jpg">>,
                   <<"not a url">>}
AltTextFields == {<<"Starter Kit", " Bundle Components">>, <<>>}

\* what request.json() can yield for the POST: a rejection, null, or an
\* object holding any of the three fields
UpdateBodies ==
    {[kind |-> "badjson"], [kind |-> "null"]}
    \cup {[kind |-> "object", fields |-> f] :
            f \in [{"productId", "imageUrl", "altText"} ->
                       ProductIdFields \cup ImageUrlFields \cup AltTextFields
                           \cup {<<"absent">>}]}

\* the field of the destructured body: '' stands for undefined as well
FieldOf(body, name) ==
    IF body.fields[name] = <<"absent">> THEN <<>> ELSE body.fields[name]

\* what the productUpdate mutation can answer
MutationAnswers ==
    {[kind |-> "throw", message |-> "GraphQL Client: Throttled"],
     [kind |-> "nodata"],
     [kind |-> "data", userErrors |-> <<"Image URL is invalid">>,
      product |-> [type |-> "null"]],
     [kind |-> "data",
      userErrors |-> <<"Image URL is invalid", "Product does not exist">>,
      product |-> [type |-> "null"]],
     [kind |-> "data", userErrors |-> <<"Image URL is invalid">>,
      product |-> [type |-> "object", nodes |-> 1]],
     [kind |-> "data", userErrors |-> <<>>, product |-> [type |-> "null"]],
     [kind |-> "data", userErrors |-> <<>>, product |-> [type |-> "object"]]}
    \cup {[kind |-> "data", userErrors |-> <<>>,
           product |-> [type |-> "object", nodes |-> n]] : n \in 0..2}

\* part_007:174  userErrors.map((e) => e.message).join(", ")
RECURSIVE JoinMessages(_)
JoinMessages(messages) ==
    IF messages = <<>> THEN <<>>
    ELSE IF Len(messages) = 1 THEN messages
    ELSE <<Head(messages), ", ">> \o JoinMessages(Tail(messages))

\* the user errors dropped when a product came back with them
UserErrorsOf_UnlessProduct(answer) ==
    IF answer.kind # "data" THEN <<>>
    ELSE IF answer.product.type = "object" THEN <<>>
    ELSE answer.userErrors

\* part_007:172  data.data?.productUpdate?.userErrors || []
UserErrorsOf(answer) ==
    IF answer.kind = "data" THEN answer.userErrors ELSE <<>>

\* part_007:202  product.media?.nodes?.length || 0
MediaCountOf(product) ==
    IF "nodes" \in DOMAIN product THEN product.nodes ELSE 0

\* part_007:83-92, 97-106, 112-123, 176-184, 191-199  an error reply
UpdateError(status, productId, message) ==
    JsonReply(status,
        [productId |-> productId, success |-> FALSE, error |-> message])

\* the catch clause rethrowing
UpdateCaught_Rethrow(message) == [status |-> 0, body |-> [uncaught |-> message]]

\* part_007:218-231  the catch clause
UpdateCaught(message) == UpdateError(500, <<"unknown">>, <<message>>)

\* part_007:82-125  the reply of the input tests, none when they pass
UpdateValidationReply(productId, imageUrl, altText) ==
    IF productId = <<>> \/ imageUrl = <<>> \/ altText = <<>>
    THEN UpdateError(400,
             IF productId = <<>> THEN <<"unknown">> ELSE productId,
             <<"Missing required fields: productId, imageUrl, or altText">>)
    ELSE IF ~MatchesGid(productId)
    THEN UpdateError(400, productId,
             <<"Invalid product ID format: ">> \o productId)
    ELSE IF ~ParsesAsUrl(imageUrl)
    THEN UpdateError(400, productId,
             <<"Invalid image URL format: ">> \o imageUrl)
    ELSE NoReply

InitUpdate ==
    /\ updatePc = "idle"
    /\ updateBody = [kind |-> "none"]
    /\ mutations = <<>>
    /\ mutationAnswer = [kind |-> "none"]
    /\ updateReply = NoReply

\* part_007:75-167  a POST arrives: parse, destructure, test the input,
\* issue the mutation
UpdateImageRequest(body) ==
    /\ updatePc \in {"idle", "responded"}
    /\ updateBody' = body
    /\ mutationAnswer' = [kind |-> "none"]
    /\ IF body.kind = "badjson"
       THEN /\ updateReply' = UpdateCaught("Unexpected end of JSON input")
            /\ mutations' = <<>>
            /\ updatePc' = "responded"
       ELSE IF body.kind = "null"
       THEN /\ updateReply' = UpdateCaught(
                   "Cannot destructure property 'productId' of 'body'")
            /\ mutations' = <<>>
            /\ updatePc' = "responded"
       ELSE LET productId == FieldOf(body, "productId")
                imageUrl == FieldOf(body, "imageUrl")
                altText == FieldOf(body, "altText")
                reply == UpdateValidationReply(productId, imageUrl, altText)
            IN  /\ updateReply' = reply
                /\ IF reply = NoReply
                   THEN /\ mutations' = <<[productId |-> productId,
                                           imageUrl |-> imageUrl,
                                           altText |-> altText]>>
                        /\ updatePc' = "awaitMutation"
                   ELSE /\ mutations' = <<>>
                        /\ updatePc' = "responded"

\* part_007:169-217  the mutation settles
MutationSettles(answer) ==
    /\ updatePc = "awaitMutation"
    /\ updatePc' = "responded"
    /\ mutationAnswer' = answer
    /\ LET productId == mutations[1].productId
           userErrors == UserErrorsOf(answer)
       IN  updateReply' =
             IF answer.kind = "throw" THEN UpdateCaught(answer.message)
             ELSE IF Len(userErrors) > 0
             THEN UpdateError(400, productId,
                      <<"Product update failed: ">> \o JoinMessages(userErrors))
             ELSE IF answer.kind = "nodata" \/ answer.product.type = "null"
             THEN UpdateError(500, productId,
                      <<"Product update returned no product data">>)
             ELSE JsonReply(200,
                      [productId |-> productId, success |-> TRUE,
                       mediaCount |-> MediaCountOf(answer.product)])
    /\ UNCHANGED <<updateBody, mutations>>

\* ------------------------------------------------------------------------
\* Specifications
\* ------------------------------------------------------------------------
\* ------------------------------------------------------------------------
\* Extension: loadImages and the run trigger  (part_003:21-76, 309-314)
\* ------------------------------------------------------------------------
Null == [type |-> "null"]

Text(parts) == [type |-> "string", value |-> parts]

\* what data.selected can be: absent, or a list of selected resources
Selections ==
    {Undefined}
    \cup {JsonArray(items) :
            items \in SeqsUpTo({[id |-> g] : g \in ProductGids}, MaxSelected)}

\* part_003:23  data.selected || []
SelectedOrEmpty(sel) == IF sel.type = "array" THEN sel.items ELSE <<>>

\* part_003:31  selected.map(item => item.id)
SelectedIds(items) == [k \in 1..Len(items) |-> items[k].id]

\* part_003:39-43
LoadRequest(ids) ==
    [url |-> "/app/api/fetch-bundle-images", body |-> [productIds |-> ids]]

\* what the fetch of the effect can settle with
LoadResponses ==
    {FetchThrown, BadJson(200), BadJson(500)}
    \cup {JsonResponse(st, [error |-> "productIds array is empty"]) :
            st \in ErrorStatuses}
    \cup {JsonResponse(500, [error |-> ""]),
          JsonResponse(500, [message |-> "Internal Server Error"]),
          JsonResponse(200, [metadata |-> [requestedProducts |-> 1]])}
    \cup {JsonResponse(200, [products |-> groups,
                             metadata |-> [requestedProducts |-> 1]]) :
            groups \in GroupLists}

\* an empty product list taken for a success
LoadError_EmptyListIsFine(res) ==
    IF res.kind \in {"throw", "badjson"} THEN Text(<<res.message>>)
    ELSE IF ~res.ok
    THEN (IF "error" \in DOMAIN res.body /\ res.body.error # ""
          THEN Text(<<res.body.error>>)
          ELSE Text(<<"Error: ", ToString(res.status)>>))
    ELSE IF "products" \notin DOMAIN res.body
    THEN Text(<<"Cannot read properties of undefined (reading 'length')">>)
    ELSE Null

\* part_003:45-70  the error the settled fetch leaves in imageError: the
\* message of what was thrown, the error of a non-OK response, the text for
\* an empty product list, or null
LoadError(res) ==
    IF res.kind \in {"throw", "badjson"} THEN Text(<<res.message>>)
    ELSE IF ~res.ok
    THEN (IF "error" \in DOMAIN res.body /\ res.body.error # ""
          THEN Text(<<res.body.error>>)
          ELSE Text(<<"Error: ", ToString(res.status)>>))
    ELSE IF "products" \notin DOMAIN res.body
    THEN Text(<<"Cannot read properties of undefined (reading 'length')">>)
    ELSE IF Len(res.body.products) = 0
    THEN Text(<<"No images found in selected bundle products. Please ensure products have bundle components with featured images.">>)
    ELSE Null

\* part_003:12-14
InitLoad ==
    /\ selected \in Selections
    /\ loadPc = "mounted"
    /\ loadingImages = TRUE
    /\ imageError = Null
    /\ loadRequest = NoRequest

\* no selection is looked at
LoadQuiet == selected = Undefined

\* part_003:22-43  the effect starts: the empty selection ends it at once,
\* otherwise the ids are posted
LoadImages ==
    /\ loadPc = "mounted"
    /\ LET items == SelectedOrEmpty(selected)
       IN  IF Len(items) = 0
           THEN /\ imageError' =
                       Text(<<"Please select at least one bundle product">>)
                /\ loadingImages' = FALSE
                /\ loadPc' = "settled"
                /\ UNCHANGED loadRequest
           ELSE /\ loadingImages' = TRUE
                /\ imageError' = Null
                /\ loadRequest' = LoadRequest(SelectedIds(items))
                /\ loadPc' = "fetching"
    /\ UNCHANGED <<selected, products>>

\* part_003:45-72  the fetch settles: the error or the products are set, and
\* loadingImages is cleared on every path
LoadSettles(res) ==
    /\ loadPc = "fetching"
    /\ imageError' = LoadError(res)
    /\ products' = IF LoadError(res) = Null THEN res.body.products
                   ELSE products
    /\ loadingImages' = FALSE
    /\ loadPc' = "settled"
    /\ UNCHANGED <<selected, loadRequest>>

\* part_003:311  the trigger button is not disabled
TriggerEnabled ==
    ~(loadingImages \/ Len(products) = 0 \/ processing)

\* the run with the processing flag left alone
Click_NoFlag ==
    /\ TriggerEnabled
    /\ pc \in {"idle", "done"}
    /\ processingResults' = <<>>
    /\ processedCount' = 0
    /\ results' = <<>>
    /\ i' = 0
    /\ fetchLog' = <<>>
    /\ sent' = <<>>
    /\ pc' = "loop"
    /\ UNCHANGED <<products, processing, currentStep, processRes,
                   combinedImageUrl, inflight>>

\* part_003:309-314  a click on the enabled trigger calls
\* generateAndUpdateBundles
Click == TriggerEnabled /\ Start

Init ==
    /\ InitRun /\ InitLayout /\ InitFetch /\ InitBuild /\ BuildQuiet
    /\ InitUpdate /\ InitLoad /\ LoadQuiet

\* the write-back run, called on any list of groups
Next ==
    \/ Start /\ UNCHANGED <<layoutVars, fetchVars, buildVars, updateVars, loadVars>>
    \/ LoopHead /\ UNCHANGED <<layoutVars, fetchVars, buildVars, updateVars, loadVars>>
    \/ \E res \in ProcessResponses : ProcessSettles(res) /\ UNCHANGED <<layoutVars, fetchVars, buildVars, updateVars, loadVars>>
    \/ \E res \in UpdateResponses : UpdateSettles(res) /\ UNCHANGED <<layoutVars, fetchVars, buildVars, updateVars, loadVars>>

Spec == Init /\ [][Next]_vars

\* every fetch() promise settles and every continuation is run by the event
\* loop; only a new click on the trigger is left to the user
FairSpec ==
    /\ Spec
    /\ WF_runVars(LoopHead)
    /\ WF_runVars(\E res \in ProcessResponses : ProcessSettles(res))
    /\ WF_runVars(\E res \in UpdateResponses : UpdateSettles(res))

\* the layout planner, called on any image count
InitLayoutSpec ==
    /\ InitLayout
    /\ InitRun
    /\ InitFetch
    /\ InitBuild
    /\ BuildQuiet
    /\ InitUpdate
    /\ InitLoad
    /\ LoadQuiet
    /\ products = <<>>

LayoutNext ==
    \/ \E n \in ImageCounts, cell \in CellSizes :
          LayoutCall(n, cell) /\ UNCHANGED <<runVars, fetchVars, buildVars, updateVars, loadVars>>
    \/ LayoutPush /\ UNCHANGED <<runVars, fetchVars, buildVars, updateVars, loadVars>>
    \/ LayoutReturn /\ UNCHANGED <<runVars, fetchVars, buildVars, updateVars, loadVars>>

LayoutSpec == InitLayoutSpec /\ [][LayoutNext]_vars

\* the fetch-bundle-images handler, called with any request body
InitFetchSpec ==
    /\ InitFetch
    /\ InitRun
    /\ InitLayout
    /\ InitBuild
    /\ BuildQuiet
    /\ InitUpdate
    /\ InitLoad
    /\ LoadQuiet
    /\ products = <<>>

FetchNext ==
    \/ /\ fetchPc = "idle"
       /\ \E body \in RequestBodies : FetchRequest(body)
       /\ UNCHANGED <<runVars, layoutVars, buildVars, updateVars, loadVars>>
    \/ FetchLoop /\ UNCHANGED <<runVars, layoutVars, buildVars, updateVars, loadVars>>
    \/ /\ fetchPc = "awaitQuery"
       /\ \E answer \in AllQueryAnswers : QuerySettles(answer)
       /\ UNCHANGED <<runVars, layoutVars, buildVars, updateVars, loadVars>>

FetchSpec == InitFetchSpec /\ [][FetchNext]_vars

\* the composite builder, in any environment, called with any argument and
\* posted any body
InitBuildSpec ==
    /\ InitBuild
    /\ InitUpdate
    /\ InitRun
    /\ InitLayout
    /\ InitFetch
    /\ InitLoad
    /\ LoadQuiet
    /\ products = <<>>

BuildNext ==
    \/ \E v \in BuildInputs :
          BuildCall(v) /\ UNCHANGED <<runVars, layoutVars, fetchVars, updateVars, loadVars>>
    \/ \E body \in ActionBodies :
          ImageProcessRequest(body)
              /\ UNCHANGED <<runVars, layoutVars, fetchVars, updateVars, loadVars>>
    \/ \E k \in 1..MaxUrls, outcome \in UploadOutcomes :
          UploadSettles(k, outcome)
              /\ UNCHANGED <<runVars, layoutVars, fetchVars, updateVars, loadVars>>
    \/ \E outcome \in ImgbbOutcomes :
          ImgbbSettles(outcome) /\ UNCHANGED <<runVars, layoutVars, fetchVars, updateVars, loadVars>>
    \/ Tick /\ UNCHANGED <<runVars, layoutVars, fetchVars, updateVars, loadVars>>

BuildSpec == InitBuildSpec /\ [][BuildNext]_vars

\* the three POST handlers, posted any body. The handlers share no state:
\* a behaviour follows the requests to one endpoint, and only the
\* image-process handler, which reads process.env, is run in every
\* environment.
InitEndpointSpec ==
    /\ InitFetch
    /\ InitBuild
    /\ InitUpdate
    /\ InitRun
    /\ InitLayout
    /\ InitLoad
    /\ LoadQuiet
    /\ products = <<>>

OnlyFetchPosted ==
    actionBody.kind = "none" /\ updateBody.kind = "none" /\ BuildQuiet

OnlyImageProcessPosted ==
    reqBody.kind = "none" /\ updateBody.kind = "none"

OnlyUpdatePosted ==
    reqBody.kind = "none" /\ actionBody.kind = "none" /\ BuildQuiet

EndpointNext ==
    \/ /\ OnlyFetchPosted
       /\ fetchPc = "idle"
       /\ \E body \in RequestBodies : FetchRequest(body)
       /\ UNCHANGED <<runVars, layoutVars, buildVars, updateVars, loadVars>>
    \/ FetchLoop /\ UNCHANGED <<runVars, layoutVars, buildVars, updateVars, loadVars>>
    \/ /\ fetchPc = "awaitQuery"
       /\ \E answer \in AllQueryAnswers : QuerySettles(answer)
       /\ UNCHANGED <<runVars, layoutVars, buildVars, updateVars, loadVars>>
    \/ /\ OnlyImageProcessPosted
       /\ \E body \in ActionBodies : ImageProcessRequest(body)
       /\ UNCHANGED <<runVars, layoutVars, fetchVars, updateVars, loadVars>>
    \/ \E k \in 1..MaxUrls, outcome \in UploadOutcomes :
          UploadSettles(k, outcome)
              /\ UNCHANGED <<runVars, layoutVars, fetchVars, updateVars, loadVars>>
    \/ \E outcome \in ImgbbOutcomes :
          ImgbbSettles(outcome)
              /\ UNCHANGED <<runVars, layoutVars, fetchVars, updateVars, loadVars>>
    \/ /\ OnlyUpdatePosted
       /\ \E body \in UpdateBodies : UpdateImageRequest(body)
       /\ UNCHANGED <<runVars, layoutVars, fetchVars, buildVars, loadVars>>
    \/ \E answer \in MutationAnswers :
          MutationSettles(answer)
              /\ UNCHANGED <<runVars, layoutVars, fetchVars, buildVars, loadVars>>

EndpointSpec == InitEndpointSpec /\ [][EndpointNext]_vars

\* the extension: the effect on mount, then the runs the trigger starts
InitExtensionSpec ==
    /\ InitRun
    /\ products = <<>>
    /\ InitLoad
    /\ InitLayout
    /\ InitFetch
    /\ InitBuild
    /\ BuildQuiet
    /\ InitUpdate

ExtensionNext ==
    \/ LoadImages
          /\ UNCHANGED <<runLocals, layoutVars, fetchVars, buildVars, updateVars>>
    \/ /\ loadPc = "fetching"
       /\ \E res \in LoadResponses : LoadSettles(res)
       /\ UNCHANGED <<runLocals, layoutVars, fetchVars, buildVars, updateVars>>
    \/ Click /\ UNCHANGED <<layoutVars, fetchVars, buildVars, updateVars, loadVars>>
    \/ LoopHead /\ UNCHANGED <<layoutVars, fetchVars, buildVars, updateVars, loadVars>>
    \/ \E res \in ProcessResponses :
          ProcessSettles(res)
              /\ UNCHANGED <<layoutVars, fetchVars, buildVars, updateVars, loadVars>>
    \/ \E res \in UpdateResponses :
          UpdateSettles(res)
              /\ UNCHANGED <<layoutVars, fetchVars, buildVars, updateVars, loadVars>>

ExtensionSpec == InitExtensionSpec /\ [][ExtensionNext]_vars

\* the effect is run after the first render, and every fetch() promise
\* settles and its continuation is run by the event loop; a click is left to
\* the user
ExtensionFairSpec ==
    /\ ExtensionSpec
    /\ WF_loadVars(LoadImages)
    /\ WF_loadVars(\E res \in LoadResponses : LoadSettles(res))
    /\ WF_runVars(LoopHead)
    /\ WF_runVars(\E res \in ProcessResponses : ProcessSettles(res))
    /\ WF_runVars(\E res \in UpdateResponses : UpdateSettles(res))


\* ------------------------------------------------------------------------
\* Properties of the write-back run
\* ------------------------------------------------------------------------
\* the composite step of a logged group returned a combinedImageUrl
ReturnedUrl(log) ==
    /\ log.process.kind = "json"
    /\ log.process.status = 200
    /\ "combinedImageUrl" \in DOMAIN log.process.body
    /\ log.process.body.combinedImageUrl \in CombinedUrls

\* the update response of a logged group was OK with success true
UpdateSucceeded(log) ==
    /\ log.update.kind = "json"
    /\ log.update.status = 200
    /\ log.update.body.success = TRUE

Recordings == 1..Len(results)

HasError(outcome) ==
    /\ "error" \in DOMAIN outcome
    /\ Len(outcome.error) > 0

IsFailure(outcome) ==
    /\ "success" \in DOMAIN outcome
    /\ outcome.success = FALSE
    /\ HasError(outcome)

\* C1 (as claimed): every group whose composite step returned a
\* combinedImageUrl and whose update call then failed in any way (non-OK
\* status, success false in the body, or the request throwing) is recorded
\* with success=false, an error message and that combinedImageUrl.
C1_UpdateFailureKeepsUrl ==
    \A k \in Recordings :
        (ReturnedUrl(fetchLog[k]) /\ ~UpdateSucceeded(fetchLog[k])) =>
            /\ IsFailure(results[k])
            /\ "combinedImageUrl" \in DOMAIN results[k]
            /\ results[k].combinedImageUrl =
                   fetchLog[k].process.body.combinedImageUrl

\* C2: every group whose composite step fails (non-OK response, thrown
\* request, or a response without combinedImageUrl) is recorded once with
\* success=false, an error message and no combinedImageUrl ...
C2_FailureRecorded ==
    /\ Len(fetchLog) = Len(results)
    /\ \A k \in Recordings :
          ~ReturnedUrl(fetchLog[k]) =>
              /\ fetchLog[k].update = NoRequest
              /\ IsFailure(results[k])
              /\ "combinedImageUrl" \notin DOMAIN results[k]

\* ... and the run then continues with the next group: recording a composite
\* failure adds exactly one outcome, leaves the earlier outcomes as they
\* were and returns to the loop test for the next index; the loop is left
\* only when every group has its outcome.
C2_RunContinues ==
    /\ results' # <<>> =>
          /\ Len(results') >= Len(results)
          /\ SubSeq(results', 1, Len(results)) = results
    /\ (pc = "awaitProcess" /\ pc' # "awaitUpdate") =>
          /\ Len(results') = Len(results) + 1
          /\ pc' = "loop"
          /\ i' = i + 1
          /\ processing'
    /\ (pc = "loop" /\ pc' = "done") => Len(results) = Len(products)

C2_CompositeFailureIsPerGroup ==
    []C2_FailureRecorded /\ [][C2_RunContinues]_vars

\* a composite failure of the first group, and a later group updated
C2_Witness ==
    /\ pc = "done"
    /\ Len(processingResults) = 2
    /\ ~ReturnedUrl(fetchLog[1])
    /\ IsFailure(processingResults[1])
    /\ processingResults[2].success = TRUE

\* C3 (as claimed): for every list of groups of any length >= 0 the final
\* result list holds exactly len(groups) outcomes, outcome k carrying the
\* productId of group k.
OneOutcomePerGroup ==
    /\ Len(processingResults) = Len(products)
    /\ \A k \in 1..Len(products) :
          /\ "productId" \in DOMAIN processingResults[k]
          /\ processingResults[k].productId = products[k].productId

C3_FinalResults ==
    pc = "done" =>
        IF Len(products) > 0
        THEN OneOutcomePerGroup
        ELSE processingResults =
                 <<[error |-> <<"No products available to process">>]>>

C4_OneRequestInFlight ==
    /\ Cardinality(inflight) <= 1
    /\ \A r \in inflight :
          /\ r.index = Len(results)
          /\ r.index = i
          /\ pc \in {"awaitProcess", "awaitUpdate"}

\* the composite request of the second group is in flight
C4_Witness ==
    /\ Len(results) = 1
    /\ \E r \in inflight :
          r.index = 1 /\ r.url = "/app/api/image-process"

\* C5: an outcome has success=true exactly when the composite step returned
\* a combinedImageUrl and the update response was OK with success true; it
\* then carries that combinedImageUrl and the mediaCount of the response.
C5_SuccessIffBothSteps ==
    \A k \in Recordings :
        LET outcome == results[k]
            log == fetchLog[k]
            success == "success" \in DOMAIN outcome /\ outcome.success = TRUE
        IN  /\ success <=> (ReturnedUrl(log) /\ UpdateSucceeded(log))
            /\ success =>
                  /\ "combinedImageUrl" \in DOMAIN outcome
                  /\ outcome.combinedImageUrl =
                         log.process.body.combinedImageUrl
                  /\ "mediaCount" \in DOMAIN outcome
                  /\ outcome.mediaCount = log.update.body.mediaCount

\* one group updated and one group whose update answered success false
C5_Witness ==
    /\ Len(results) = 2
    /\ results[1].success = TRUE
    /\ results[1].mediaCount = 2
    /\ ReturnedUrl(fetchLog[2])
    /\ fetchLog[2].update.kind = "json"
    /\ results[2].success = FALSE

\* ------------------------------------------------------------------------
\* Properties of the layout planner
\* ------------------------------------------------------------------------
LayoutCalls == 1..Len(layoutLog)

\* the cells of a grid, row 0 left to right, then row 1, ...
RowMajorCells(nRows, nCols, cw, ch) ==
    [k \in 1..(nRows * nCols) |->
        CHOOSE p \in {[x |-> c * cw, y |-> r * ch] :
                         r \in 0..(nRows - 1), c \in 0..(nCols - 1)} :
            (p.y \div ch) * nCols + (p.x \div cw) = k - 1]

\* C6: for every imageCount in 1..12 the layout has rows*cols >= imageCount,
\* exactly imageCount positions, pairwise distinct, which are the first
\* imageCount cells of the grid in row-major order (both cell sizes).
C6_PositionsAreRowMajorCells ==
    \A c \in LayoutCalls :
        LET n == layoutLog[c].imageCount
            g == layoutLog[c].layout
        IN  n \in 1..12 =>
              /\ g.rows * g.cols >= n
              /\ Len(g.positions) = n
              /\ \A a, b \in 1..Len(g.positions) :
                    a # b => g.positions[a] # g.positions[b]
              /\ g.positions =
                    SubSeq(RowMajorCells(g.rows, g.cols, g.cellWidth,
                                         g.cellHeight), 1, n)

\* a 5-image layout of each variant has been returned
C6_Witness ==
    /\ Len(layoutLog) = 2
    /\ layoutLog[1].imageCount = 5
    /\ layoutLog[1].layout.cellWidth = 1024
    /\ layoutLog[2].imageCount = 12
    /\ layoutLog[2].layout.cellWidth = 400

C8_FixedTable ==
    \A c \in LayoutCalls :
        LET n == layoutLog[c].imageCount
            g == layoutLog[c].layout
            grid == <<g.cols, g.rows>>
        IN  /\ n = 1 => grid = <<1, 1>>
            /\ n = 2 => grid = <<2, 1>>
            /\ n = 3 => grid \in {<<2, 2>>, <<3, 1>>}
            /\ n = 4 => grid = <<2, 2>>
            /\ n \in 5..6 => grid = <<3, 2>>
            /\ n \in 7..9 => grid = <<3, 3>>
            /\ n > 9 =>
                  /\ g.cols * g.cols >= n
                  /\ (g.cols - 1) * (g.cols - 1) < n
                  /\ g.rows * g.cols >= n
                  /\ (g.rows - 1) * g.cols < n

\* a table row and a formula row have been returned
C8_Witness ==
    /\ Len(layoutLog) = 2
    /\ layoutLog[1].imageCount = 6
    /\ layoutLog[1].layout.cols = 3
    /\ layoutLog[2].imageCount = 10
    /\ layoutLog[2].layout.cols = 4
    /\ layoutLog[2].layout.rows = 3

WellFormedGids == {<<GidPrefix, "1">>, <<GidPrefix, "2", "0">>}

\* the body is an object whose productIds is missing, not an array, empty,
\* or holds an id that is not well formed, at any position
RejectedProductIds(body) ==
    /\ body.kind = "object"
    /\ \/ "productIds" \notin DOMAIN body.fields
       \/ body.fields.productIds.type # "array"
       \/ body.fields.productIds.items = <<>>
       \/ \E k \in 1..Len(body.fields.productIds.items) :
             body.fields.productIds.items[k] \notin WellFormedGids

\* C10: if productIds is missing, not an array, empty, or contains an id not
\* of the form gid://shopify/Product/<digits> (at any position), the POST is
\* answered 400 {error}, no commerce query is issued and no partial result
\* is returned.
C10_InvalidIdsRejectedBeforeQueries ==
    RejectedProductIds(reqBody) =>
        /\ queries = <<>>
        /\ fetchPc = "responded"
        /\ response.status = 400
        /\ DOMAIN response.body = {"error"}
        /\ Len(response.body.error) > 0

\* a list whose second id is malformed has been rejected
C10_Witness ==
    /\ reqBody.kind = "object"
    /\ "productIds" \in DOMAIN reqBody.fields
    /\ reqBody.fields.productIds = JsonArray(<<<<GidPrefix, "1">>,
                                               <<GidPrefix, "1", "x">>>>)
    /\ response.status = 400
    /\ response.body.error =
           <<"Invalid product ID format: ", <<GidPrefix, "1", "x">>>>

\* the request carried a non-empty list of well-formed product ids
ValidIdList ==
    /\ reqBody.kind = "object"
    /\ "productIds" \in DOMAIN reqBody.fields
    /\ reqBody.fields.productIds.type = "array"
    /\ reqBody.fields.productIds.items # <<>>
    /\ \A k \in 1..Len(reqBody.fields.productIds.items) :
          reqBody.fields.productIds.items[k] \in WellFormedGids

ShowsImage(component) == "image" \in DOMAIN component.featuredMedia

ReturnedEdges(answer) ==
    IF "edges" \in DOMAIN answer.product THEN answer.product.edges ELSE <<>>

\* the last lookup came back with a product
LastFound ==
    lastAnswer.kind = "data" /\ "type" \notin DOMAIN lastAnswer.product

\* the lookups of the request that ended in one of the given ways
LookupsThat(outcomes) ==
    {k \in 1..Len(lookups) : lookups[k] \in outcomes}

\* C11: for a valid id list, a query failure or a not-found result for one
\* id only omits that product: once the request is answered, the answer is
\* the success shape (status 200, products and metadata), productsFound
\* counts only the lookups that found a product, and the groups are those
\* of the found products.
C11_FailedLookupOnlyOmitsProduct ==
    (ValidIdList /\ fetchPc = "responded"
       /\ LookupsThat({"throw", "errors", "notfound"}) # {}) =>
        /\ response.status = 200
        /\ DOMAIN response.body = {"products", "metadata"}
        /\ response.body.metadata.productsFound =
               Cardinality(LookupsThat({"found"}))
        /\ response.body.products = productsWithImages

\* C12: the ComponentImages of a found product's group are, in component
\* order, the returned components that have a featured image: same number,
\* same components; the components without one raise no error.
C12_ImagesAreImagedComponentsInOrder ==
    /\ LastFound =>
          LET imaged == SelectSeq(ReturnedEdges(lastAnswer), ShowsImage)
              group == productsWithImages[Len(productsWithImages)]
          IN  imaged # <<>> =>
                /\ productsWithImages # <<>>
                /\ group.productId = lastAnswer.product.id
                /\ Len(group.componentImages) = Len(imaged)
                /\ \A n \in 1..Len(imaged) :
                      /\ group.componentImages[n].componentProductId =
                             imaged[n].id
                      /\ group.componentImages[n].imageUrl =
                             imaged[n].featuredMedia.image.url
    /\ (fetchPc = "responded" /\ lookups # <<>>
          /\ LookupsThat({"throw"}) = {}) => response.status = 200

\* three components, the second without a featured image, gave two images
C12_Witness ==
    /\ fetchPc = "responded"
    /\ response.status = 200
    /\ lookups = <<"found">>
    /\ Len(ReturnedEdges(lastAnswer)) = 3
    /\ ShowsImage(ReturnedEdges(lastAnswer)[1])
    /\ ~ShowsImage(ReturnedEdges(lastAnswer)[2])
    /\ ShowsImage(ReturnedEdges(lastAnswer)[3])
    /\ Len(response.body.products) = 1
    /\ Len(response.body.products[1].componentImages) = 2

\* C13: every group of a success response has at least one image URL; a
\* found product without components, or whose components all lack a
\* featured image, is in no group.
C13_NoGroupWithoutImages ==
    /\ \A j \in 1..Len(productsWithImages) :
          /\ Len(productsWithImages[j].imageUrls) >= 1
          /\ Len(productsWithImages[j].imageUrls) =
                 Len(productsWithImages[j].componentImages)
    /\ (fetchPc = "responded" /\ response.status = 200) =>
          /\ response.body.products = productsWithImages
          /\ response.body.metadata.imagesFound >=
                 Len(response.body.products)
    /\ (LastFound /\ SelectSeq(ReturnedEdges(lastAnswer), ShowsImage) = <<>>) =>
          Len(productsWithImages) < Cardinality(LookupsThat({"found"}))

\* two products were found, the last one with two components both lacking
\* a featured image, and no component elsewhere: the success response has
\* no group
C13_Witness ==
    /\ fetchPc = "responded"
    /\ response.status = 200
    /\ lookups = <<"found", "found">>
    /\ Len(ReturnedEdges(lastAnswer)) = 2
    /\ \A m \in 1..2 : ~ShowsImage(ReturnedEdges(lastAnswer)[m])
    /\ response.body.metadata.productsFound = 2
    /\ response.body.metadata.componentsFound = 2
    /\ response.body.products = <<>>

\* the well-formed URLs among the ones the builder is given
WellFormedUrls ==
    {<<"https", ":", "//cdn.shop/soap.jpg">>,
     <<"https", ":", "//cdn.shop/candle.jpg">>}

\* processImages has been called and its argument is missing, empty, or
\* holds a malformed URL
CalledWithBadList ==
    /\ buildPc # "idle"
    /\ \/ imageUrls.type # "array"
       \/ imageUrls.items = <<>>
       \/ \E k \in 1..Len(imageUrls.items) :
             imageUrls.items[k] \notin WellFormedUrls

\* processImages has been called with a non-empty list of well-formed URLs
CalledWithGoodList ==
    /\ buildPc # "idle"
    /\ imageUrls.type = "array"
    /\ imageUrls.items # <<>>
    /\ \A k \in 1..Len(imageUrls.items) :
          imageUrls.items[k] \in WellFormedUrls

NoExternalCall == uploads = <<>> /\ fetches = <<>>

\* C14: a missing or empty URL list, and a list holding a malformed URL,
\* make processImages throw, with no process.env name read, no backend
\* branch entered, no upload started and no other external call made.
C14_BadListRejectedFirst ==
    CalledWithBadList =>
        /\ buildResult.kind = "thrown"
        /\ Head(buildResult.message) \in
               {"No image URLs provided", "Invalid URL format: "}
        /\ envReads = <<>>
        /\ branches = <<>>
        /\ NoExternalCall

\* a list whose second URL is malformed was rejected where the backend is
\* fully configured
C14_Witness ==
    /\ service = GridService
    /\ \A k \in 1..3 : environment[CloudinaryNames[k]].defined
    /\ buildPc = "thrown"
    /\ imageUrls = JsonArray(<<<<"https", ":", "//cdn.shop/soap.jpg">>,
                               <<"not a url">>>>)
    /\ buildResult.message = <<"Invalid URL format: ", "not a url">>
    /\ envReads = <<>>
    /\ uploads = <<>>

\* the real compositing backend is the one a call uses
RealBackendSelected ==
    \/ service = GridService
    \/ /\ service = FlaggedService
       /\ environment["IMAGE_API_MODE"] = EnvString("cloudinary")

SomeCredentialAbsent ==
    \/ environment["CLOUDINARY_CLOUD_NAME"] = Unset
    \/ environment["CLOUDINARY_API_KEY"] = Unset
    \/ environment["CLOUDINARY_API_SECRET"] = Unset

Names(message) == {message[k] : k \in 1..Len(message)}

\* C15: with a valid URL list and the real backend selected, a call made
\* while any of the three credentials is absent throws an error that names
\* the three required settings, and starts no upload.
C15_MissingCredentialFailsBeforeUpload ==
    (CalledWithGoodList /\ RealBackendSelected /\ SomeCredentialAbsent) =>
        /\ buildResult.kind = "thrown"
        /\ {"CLOUDINARY_CLOUD_NAME", "CLOUDINARY_API_KEY",
            "CLOUDINARY_API_SECRET"} \subseteq Names(buildResult.message)
        /\ NoExternalCall

\* the mode is cloudinary and only the API secret is absent: the call threw
C15_Witness ==
    /\ service = FlaggedService
    /\ environment["IMAGE_API_MODE"] = EnvString("cloudinary")
    /\ environment["CLOUDINARY_CLOUD_NAME"].defined
    /\ environment["CLOUDINARY_API_KEY"].defined
    /\ environment["CLOUDINARY_API_SECRET"] = Unset
    /\ CalledWithGoodList
    /\ buildResult.kind = "thrown"
    /\ uploads = <<>>

\* C16: once one upload of a call has failed, whatever the others did and
\* in whatever order, the call has thrown and returned no combined URL; a
\* returned composite is made of one successful upload per given URL.
C16_UploadsAllOrNothing ==
    /\ (buildPc # "idle"
          /\ \E k \in 1..Len(uploads) : uploads[k].state = "failed") =>
           /\ buildResult.kind = "thrown"
           /\ actionReply.status # 200
    /\ (buildResult.kind = "returned" /\ uploads # <<>>) =>
           /\ \A k \in 1..Len(uploads) : uploads[k].state = "ok"
           /\ Len(buildResult.value.combinedImageUrl.transformation) =
                  Len(imageUrls.items)
           /\ buildResult.value.metadata.originalCount = Len(imageUrls.items)

\* the first of two uploads failed and the second succeeded: the call threw
C16_Witness ==
    /\ Len(uploads) = 2
    /\ uploads[1].state = "failed"
    /\ uploads[2].state = "ok"
    /\ buildResult.kind = "thrown"
    /\ Head(buildResult.message) = "Cloudinary processing failed: "

DemoReturned ==
    /\ buildResult.kind = "returned"
    /\ buildResult.value.metadata.processingMethod = <<"demo-collage">>

\* C17: a demo call returns method "demo-collage" and, for the URL list of
\* an earlier demo call, the combinedImageUrl that call returned.
C17_DemoUrlSameForSameList ==
    (DemoReturned /\ prevDemo.imageUrls = imageUrls) =>
        buildResult.value.combinedImageUrl = prevDemo.combinedImageUrl

ModeValue == environment["IMAGE_API_MODE"]

BadFetchInput ==
    \/ reqBody.kind \in {"badjson", "null"}
    \/ RejectedProductIds(reqBody)

\* the body posted to image-process is malformed, or its imageUrls is
\* missing, not an array, empty, or holds a malformed URL
BadImageProcessInput ==
    \/ actionBody.kind \in {"badjson", "null"}
    \/ /\ actionBody.kind = "object"
       /\ \/ "imageUrls" \notin DOMAIN actionBody.fields
          \/ actionBody.fields.imageUrls.type # "array"
          \/ actionBody.fields.imageUrls.items = <<>>
          \/ \E k \in 1..Len(actionBody.fields.imageUrls.items) :
                actionBody.fields.imageUrls.items[k] \notin WellFormedUrls

\* the body posted to update-product-image is malformed, lacks a field, or
\* holds a malformed product id or image URL
BadUpdateInput ==
    \/ updateBody.kind \in {"badjson", "null"}
    \/ /\ updateBody.kind = "object"
       /\ \/ \E name \in {"productId", "imageUrl", "altText"} :
                updateBody.fields[name] \in {<<"absent">>, <<>>}
          \/ updateBody.fields.productId \notin WellFormedGids
          \/ updateBody.fields.imageUrl \notin
                 {<<"https", ":", "//res.cloudinary.com/demo/grid.jpg">>}

\* C19: on the three POST endpoints a request with malformed or missing
\* input is answered 400 and no external call is made for it: no commerce
\* query, no env-selected backend call or upload, no mutation.
C19_BadInputAnswered400 ==
    /\ BadFetchInput => (response.status = 400 /\ queries = <<>>)
    /\ BadImageProcessInput => (actionReply.status = 400 /\ NoExternalCall)
    /\ BadUpdateInput => (updateReply.status = 400 /\ mutations = <<>>)

JsonStatuses == {200, 400, 500}

\* C20: whenever one of the three POST handlers has ended, for any parsed
\* or unparsable body and any outcome of its external calls, thrown
\* exceptions included, it has returned a status with a JSON body in its
\* success shape or in its error shape; nothing is left uncaught.
C20_AlwaysJsonReply ==
    /\ fetchPc = "responded" =>
          /\ response.status \in JsonStatuses
          /\ DOMAIN response.body =
                 (IF response.status = 200 THEN {"products", "metadata"}
                  ELSE {"error"})
    /\ (caller = "action" /\ buildPc \in {"idle", "returned", "thrown"}) =>
          /\ actionReply.status \in JsonStatuses
          /\ DOMAIN actionReply.body =
                 (IF actionReply.status = 200
                  THEN {"combinedImageUrl", "processedAt", "metadata"}
                  ELSE {"error"})
    /\ updatePc = "responded" =>
          /\ updateReply.status \in JsonStatuses
          /\ DOMAIN updateReply.body =
                 (IF updateReply.status = 200
                  THEN {"productId", "success", "mediaCount"}
                  ELSE {"productId", "success", "error"})
          /\ updateReply.body.success = (updateReply.status = 200)

\* the mutation was issued and threw: the handler answered 500 in the error
\* shape
C20_Witness ==
    /\ updatePc = "responded"
    /\ mutations # <<>>
    /\ updateReply.status = 500
    /\ updateReply.body.productId = <<"unknown">>
    /\ updateReply.body.error = <<"GraphQL Client: Throttled">>

\* the mutation of the request has settled with a reply of the backend
MutationReplied ==
    updatePc = "responded" /\ mutationAnswer.kind \in {"data", "nodata"}

ReportedUserErrors ==
    mutationAnswer.kind = "data" /\ mutationAnswer.userErrors # <<>>

ReturnedProduct ==
    mutationAnswer.kind = "data" /\ mutationAnswer.product.type = "object"

\* C21: update-product-image answers {productId, success: true, mediaCount}
\* exactly when the mutation reported no user error and returned a product,
\* mediaCount being the number of media nodes returned; user errors always
\* give {productId, success: false, error}, a product being present or not,
\* and so does a missing product.
C21_SuccessOnlyWithProductAndNoUserErrors ==
    MutationReplied =>
        /\ updateReply.body.productId = mutations[1].productId
        /\ updateReply.body.success = (~ReportedUserErrors /\ ReturnedProduct)
        /\ updateReply.body.success =>
              /\ DOMAIN updateReply.body = {"productId", "success", "mediaCount"}
              /\ updateReply.body.mediaCount =
                     (IF "nodes" \in DOMAIN mutationAnswer.product
                      THEN mutationAnswer.product.nodes ELSE 0)
        /\ ~updateReply.body.success =>
              /\ DOMAIN updateReply.body = {"productId", "success", "error"}
              /\ updateReply.body.error # <<>>

\* user errors came back together with a product: the answer is the error
\* shape
C21_Witness ==
    /\ MutationReplied
    /\ ReportedUserErrors
    /\ ReturnedProduct
    /\ updateReply.status = 400
    /\ updateReply.body.success = FALSE


\* ------------------------------------------------------------------------
\* C22
\* the composite response of group g: the recorded one, or the one the run
\* is holding while the group's update request is in flight
ProcessResponseOf(g) ==
    IF g < Len(fetchLog) THEN fetchLog[g + 1].process ELSE processRes

UpdateRequestsSent ==
    {k \in 1..Len(sent) : sent[k].url = "/app/api/update-product-image"}

\* C22: in a run, every update request follows at once the composite request
\* of the same group, whose response was OK with a truthy combinedImageUrl;
\* it carries the group's productId, that URL and the alt text
\* "<productTitle> Bundle Components"; and no group has two composite
\* requests or two update requests (nothing is retried).
C22_UpdateFollowsCompositeOncePerGroup ==
    /\ \A k \in UpdateRequestsSent :
          LET g == sent[k].index
              product == products[g + 1]
              res == ProcessResponseOf(g)
          IN  /\ k > 1
              /\ sent[k - 1] = ProcessRequest(g, product)
              /\ HasCombinedUrl(res)
              /\ sent[k].body.imageUrl = res.body.combinedImageUrl
              /\ sent[k].body.productId = product.productId
              /\ sent[k].body.altText =
                     <<product.productTitle, " Bundle Components">>
    /\ \A j, k \in 1..Len(sent) :
          (sent[j].url = sent[k].url /\ sent[j].index = sent[k].index)
              => j = k

\* a finished run of two groups that issued both requests for each of them
C22_Witness ==
    /\ pc = "done"
    /\ Len(products) = 2
    /\ Len(sent) = 4
    /\ Cardinality(UpdateRequestsSent) = 2
    /\ products[1].productTitle # products[2].productTitle


\* ------------------------------------------------------------------------
\* C23
GridReturned ==
    /\ buildResult.kind = "returned"
    /\ buildResult.value.metadata.apiUsed = "Cloudinary"

C24_CellsInsideCanvas ==
    \A c \in LayoutCalls :
        LET n == layoutLog[c].imageCount
            g == layoutLog[c].layout
        IN  n >= 1 =>
              /\ g.canvasWidth = g.cols * g.cellWidth
              /\ g.canvasHeight = g.rows * g.cellHeight
              /\ DOMAIN g.positions = 1..n
              /\ \A k \in 0..(n - 1) :
                    /\ g.positions[k + 1].x = (k % g.cols) * g.cellWidth
                    /\ g.positions[k + 1].y = (k \div g.cols) * g.cellHeight
                    /\ g.positions[k + 1].x + g.cellWidth <= g.canvasWidth
                    /\ g.positions[k + 1].y + g.cellHeight <= g.canvasHeight

\* a layout whose last cell ends at the bottom edge of a canvas wider than
\* high
C24_Witness ==
    \E c \in LayoutCalls :
        LET n == layoutLog[c].imageCount
            g == layoutLog[c].layout
        IN  /\ n = 6
            /\ g.canvasWidth > g.canvasHeight
            /\ g.positions[n].x + g.cellWidth = g.canvasWidth
            /\ g.positions[n].y + g.cellHeight = g.canvasHeight

\* C25: a layout returned for imageCount >= 1 has no completely empty row:
\* (rows - 1) * cols < imageCount <= rows * cols, in both variants and in the
\* formula branch above nine images as well.
C25_NoEmptyRow ==
    \A c \in LayoutCalls :
        LET n == layoutLog[c].imageCount
            g == layoutLog[c].layout
        IN  n >= 1 =>
              /\ (g.rows - 1) * g.cols < n
              /\ n <= g.rows * g.cols

\* three images in one variant's single row and ten images in the formula
\* branch, whose last row holds two of four cells
C25_Witness ==
    /\ Len(layoutLog) = 2
    /\ layoutLog[1].imageCount = 3
    /\ layoutLog[1].layout.rows = 1
    /\ layoutLog[2].imageCount = 10
    /\ layoutLog[2].layout.rows = 3
    /\ layoutLog[2].layout.cols = 4


\* ------------------------------------------------------------------------
\* C26, C27
SuccessResponse == fetchPc = "responded" /\ response.status = 200

\* s can be obtained from t by leaving elements out
RECURSIVE IsSubsequence(_, _)
IsSubsequence(s, t) ==
    IF s = <<>> THEN TRUE
    ELSE IF t = <<>> THEN FALSE
    ELSE IF Head(s) = Head(t) THEN IsSubsequence(Tail(s), Tail(t))
    ELSE IsSubsequence(s, Tail(t))

GroupIds(groups) == [k \in 1..Len(groups) |-> groups[k].productId]

\* C26 (as claimed): in the success response for a valid id list, repeated
\* ids included, no two groups have the same productId and the groups are in
\* the order of the requested ids.
C26_GroupsUniqueInRequestOrder ==
    SuccessResponse =>
        LET groups == response.body.products
        IN  /\ \A a, b \in 1..Len(groups) :
                  a # b => groups[a].productId # groups[b].productId
            /\ IsSubsequence(GroupIds(groups), productIds.items)

RECURSIVE SumOfUrlCounts(_)
SumOfUrlCounts(groups) ==
    IF groups = <<>> THEN 0
    ELSE Len(Head(groups).imageUrls) + SumOfUrlCounts(Tail(groups))

\* C27: in every success response requestedProducts is the length of the
\* requested list, len(products) <= productsFound <= requestedProducts,
\* imagesFound is the sum of the groups' imageUrls lengths, and imagesFound
\* <= componentsFound.
C27_StatisticsConsistent ==
    SuccessResponse =>
        LET m == response.body.metadata
            groups == response.body.products
        IN  /\ m.requestedProducts = Len(reqBody.fields.productIds.items)
            /\ Len(groups) <= m.productsFound
            /\ m.productsFound <= m.requestedProducts
            /\ m.imagesFound = SumOfUrlCounts(groups)
            /\ m.imagesFound <= m.componentsFound

\* two ids requested, one found, with three components of which two have an
\* image: every inequality is strict
C27_Witness ==
    /\ SuccessResponse
    /\ response.body.metadata.requestedProducts = 2
    /\ response.body.metadata.productsFound = 1
    /\ response.body.metadata.componentsFound = 3
    /\ response.body.metadata.imagesFound = 2
    /\ Len(response.body.products) = 1


\* ------------------------------------------------------------------------
\* C28
RunActive == pc \in {"loop", "awaitProcess", "awaitUpdate"}

\* the counter is the number of outcomes recorded so far; at the end of a
\* run over a non-empty list it is the number of groups
CountMatchesOutcomes ==
    /\ RunActive => processedCount = Len(results)
    /\ (pc = "done" /\ products # <<>>) =>
          /\ processedCount = Len(products)
          /\ processedCount = Len(processingResults)

\* a run that starts sets the counter to 0; a step of a run never lowers it
CountStep ==
    /\ (~RunActive /\ RunActive') => processedCount' = 0
    /\ RunActive => processedCount' >= processedCount
    /\ (RunActive /\ Len(results') > Len(results)) =>
          processedCount' = processedCount + 1

\* C28: during a write-back run processedCount is set to 0 at the start,
\* never decreases, is the number of outcomes recorded so far after each
\* group, whether the group succeeded or failed, and is len(products) when
\* the run ends.
C28_CounterFollowsOutcomes ==
    []CountMatchesOutcomes /\ [][CountStep]_vars

\* a run over two groups ended with the counter at 2, its first group having
\* failed
C28_Witness ==
    /\ pc = "done"
    /\ Len(products) = 2
    /\ processedCount = 2
    /\ "success" \in DOMAIN processingResults[1]
    /\ processingResults[1].success = FALSE
    /\ processingResults[2].success = TRUE


\* ------------------------------------------------------------------------
\* C29
\* every request the component has sent belongs to the invocation that is
\* recording: the groups follow each other from the first one on
SentBySingleRun ==
    \A k \in 1..Len(sent) :
        /\ sent[k].index <= i
        /\ k > 1 => sent[k - 1].index <= sent[k].index

\* C29: processing is true exactly while a write-back run is active (false
\* again on every path that ends the run); the trigger is enabled only when
\* nothing is loading, products is non-empty and no run is active, so a run
\* never starts before the one before it has ended, and the requests sent
\* and the outcomes recorded are those of a single run.
C29_ProcessingGuardsTheRun ==
    /\ processing <=> RunActive
    /\ TriggerEnabled => (~RunActive /\ inflight = {})
    /\ RunActive => (~loadingImages /\ products # <<>>)
    /\ SentBySingleRun
    /\ Len(results) = i

\* a run is active with its first request sent: the trigger is disabled
C29_Witness ==
    /\ RunActive
    /\ processing
    /\ processingResults = <<>>
    /\ sent # <<>>
    /\ ~TriggerEnabled
    /\ processedCount = 0
    /\ loadPc = "settled"

\* ------------------------------------------------------------------------
\* C30
\* with nothing loading and no error, there are groups to process
SettledWithoutErrorHasProducts ==
    (~loadingImages /\ imageError = Null) => products # <<>>

\* C30: image loading always settles: whatever the selection and whatever
\* the fetch settles with (empty selection, non-OK response, empty product
\* list, thrown error, success), loadingImages eventually becomes false; and
\* whenever loadingImages is false and imageError is null, products is
\* non-empty, so the trigger is enabled only with a group to process.
C30_LoadingSettles ==
    /\ [](loadingImages => <>(~loadingImages))
    /\ []SettledWithoutErrorHasProducts
    /\ [](TriggerEnabled => Len(products) >= 1)

\* the fetch answered 200 with an empty product list: loading has settled
\* with the error text and no products
C30_Witness ==
    /\ loadPc = "settled"
    /\ loadRequest # NoRequest
    /\ ~loadingImages
    /\ imageError # Null
    /\ Head(imageError.value) # "Failed to fetch"
    /\ Len(imageError.value) = 1
    /\ products = <<>>
    /\ ~TriggerEnabled

============================================================================
